---- MODULE Spec2Model ----
(***************************************************************************)
(* DocLayout export pipeline (doclayout/api.py, doclayout/engine/layout.py, *)
(* doclayout/engine/export.py).                                            *)
(*                                                                         *)
(* Text is a sequence of one-character strings.  Lengths are exact         *)
(* integers in units of 1/Scale mm, so that base_height / num_rows_editor  *)
(* is an exact quotient (Python floats are read as exact rationals).       *)
(* A props dict is a function whose DOMAIN is the set of keys present.     *)
(***************************************************************************)
EXTENDS Integers, Sequences, FiniteSets, TLC

VARIABLES pc, template, block_provider, data, working_template, elements, err, snapshot,
          pages, current_page, current_y, remaining_elem, next_index, renderer, position,
          scene

vars == <<pc, template, block_provider, data, working_template, elements, err, snapshot,
          pages, current_page, current_y, remaining_elem, next_index, renderer, position,
          scene>>

(* The state of _paginate_elements and of the renderer, and the editor scene. *)
expvars == <<pages, current_page, current_y, remaining_elem, next_index, renderer, position,
            scene>>

(***************************************************************************)
(* Bounds                                                                  *)
(***************************************************************************)
MaxTextLen == 6
MaxRowsEditor == 2
MaxCoord == 1
MaxItems == 2
MaxElems == 3
MaxY == 1
MaxRows == 2

(***************************************************************************)
(* Generic helpers                                                         *)
(***************************************************************************)
EmptyDict == [k \in {} |-> <<>>]

DictGet(d, k, default) == IF k \in DOMAIN d THEN d[k] ELSE default

DictSet(d, k, v) == [j \in (DOMAIN d) \cup {k} |-> IF j = k THEN v ELSE d[j]]

BoundedSeq(S, n) == UNION {[1..m -> S] : m \in 0..n}

NoValue == <<>>

(***************************************************************************)
(* ElementType (core/models.py).  TEXT_BOX is the member engine/export.py   *)
(* and the editor refer to; the enumeration in core/models.py lacks it.    *)
(***************************************************************************)
RECT == "rect"
TEXT == "text"
LINE == "line"
IMAGE == "image"
KV_BOX == "kv_box"
CONTAINER == "container"
TABLE == "table"
TEXT_BOX == "text_box"

(***************************************************************************)
(* Characters.  \s matches SpaceChars, \w matches WordChars.               *)
(***************************************************************************)
SpaceChars == {" "}
WordChars == {"n", "V", "W"}
Alphabet == {"{", "}", " ", "n", "!"}

RECURSIVE SkipWhile(_, _, _)
SkipWhile(s, i, C) ==
    IF i <= Len(s) /\ s[i] \in C THEN SkipWhile(s, i + 1, C) ELSE i

(* re.compile(r'\{\{\s*(\w+)\s*\}\}') tried at position i of s:            *)
(* end = index after the match (0 when there is no match), key = group(1). *)
PatternMatchAt(s, i) ==
    LET open == i + 1 <= Len(s) /\ s[i] = "{" /\ s[i + 1] = "{"
        k1 == SkipWhile(s, i + 2, SpaceChars)
        k2 == SkipWhile(s, k1, WordChars)
        k3 == SkipWhile(s, k2, SpaceChars)
        close == k3 + 1 <= Len(s) /\ s[k3] = "}" /\ s[k3 + 1] = "}"
    IN  IF open /\ k2 > k1 /\ close
        THEN [end |-> k3 + 2, key |-> SubSeq(s, k1, k2 - 1)]
        ELSE [end |-> 0, key |-> <<>>]

(* replacer: str(data.get(key, "{{" + key + "}}"))                         *)
replacer(key, d) == DictGet(d, key, <<"{", "{">> \o key \o <<"}", "}">>)

(* pattern.sub(replacer, text): leftmost non-overlapping matches.          *)
RECURSIVE PatternSub(_, _, _)
PatternSub(s, i, d) ==
    IF i > Len(s) THEN <<>>
    ELSE LET m == PatternMatchAt(s, i)
         IN  IF m.end > 0
             THEN replacer(m.key, d) \o PatternSub(s, m.end, d)
             ELSE <<s[i]>> \o PatternSub(s, i + 1, d)

(* LayoutEngine._substitute_text: the element after the call.              *)
_substitute_text(element, d) ==
    LET text_content == DictGet(element.props, "text", <<>>)
    IN  IF text_content = <<>> THEN element
        ELSE [element EXCEPT !.props = DictSet(@, "text", PatternSub(text_content, 1, d))]

(***************************************************************************)
(* Elements                                                                *)
(***************************************************************************)
Element(id, type, x, y, width, height, props, bindings, children) ==
    [id |-> id, type |-> type, x |-> x, y |-> y, width |-> width, height |-> height,
     props |-> props, bindings |-> bindings, children |-> children]

VariableBinding(variable_name, target_property) ==
    [variable_name |-> variable_name, target_property |-> target_property]

BlockBase(id, block_elements) == [id |-> id, elements |-> block_elements]

BlockInstance(id, block_id, x, y, d) ==
    [id |-> id, block_id |-> block_id, x |-> x, y |-> y, data |-> d]

(* isinstance(item, BlockInstance) *)
IsBlockInstance(item) == "block_id" \in DOMAIN item

RECURSIVE Concat(_)
Concat(ss) == IF ss = <<>> THEN <<>> ELSE Head(ss) \o Concat(Tail(ss))

(* copy.deepcopy: the copy, and whether it is the very object copied.      *)
copy_alias(obj) == [obj |-> obj, same |-> TRUE]

copy_deepcopy(obj) == [obj |-> obj, same |-> FALSE]

(***************************************************************************)
(* LayoutEngine (engine/layout.py)                                         *)
(***************************************************************************)
RECURSIVE _flatten_tree_children_first(_, _, _)
_flatten_tree_children_first(element, offset_x, offset_y) ==
    LET abs_x == offset_x + element.x
        abs_y == offset_y + element.y
        flat_elem == [element EXCEPT !.x = abs_x, !.y = abs_y, !.children = <<>>]
        sub == [i \in 1..Len(element.children) |->
                   _flatten_tree_children_first(element.children[i], abs_x, abs_y)]
    IN  [flat |-> Concat([i \in 1..Len(element.children) |-> sub[i].flat]) \o <<flat_elem>>,
         src |-> element]

RECURSIVE _flatten_tree_page_offset(_, _, _)
_flatten_tree_page_offset(element, offset_x, offset_y) ==
    LET abs_x == offset_x + element.x
        abs_y == offset_y + element.y
        flat_elem == [element EXCEPT !.x = abs_x, !.y = abs_y, !.children = <<>>]
        sub == [i \in 1..Len(element.children) |->
                   _flatten_tree_page_offset(element.children[i], offset_x, offset_y)]
    IN  [flat |-> <<flat_elem>> \o Concat([i \in 1..Len(element.children) |-> sub[i].flat]),
         src |-> element]

(* _flatten_tree: flat = the returned list, src = the argument afterwards. *)
RECURSIVE _flatten_tree(_, _, _)
_flatten_tree(element, offset_x, offset_y) ==
    LET abs_x == offset_x + element.x
        abs_y == offset_y + element.y
        h == copy_deepcopy(element)
        flat_elem == [h.obj EXCEPT !.x = abs_x, !.y = abs_y, !.children = <<>>]
        cur == IF h.same THEN flat_elem ELSE element
        sub == [i \in 1..Len(cur.children) |-> _flatten_tree(cur.children[i], abs_x, abs_y)]
    IN  [flat |-> <<flat_elem>> \o Concat([i \in 1..Len(cur.children) |-> sub[i].flat]),
         src |-> [cur EXCEPT !.children = [i \in 1..Len(cur.children) |-> sub[i].src]]]

(* _resolve_block: flat = the returned list, src = the block definition    *)
(* afterwards, raised = the exception raised ("none" when it returns).     *)
_resolve_block_keyerror(provider, instance) ==
    IF instance.block_id \notin DOMAIN provider
    THEN [flat |-> <<>>, src |-> NoValue, raised |-> "KeyError"]
    ELSE LET block_def == provider[instance.block_id]
             sub == [i \in 1..Len(block_def.elements) |->
                        _flatten_tree(block_def.elements[i], instance.x, instance.y)]
             subst(f) == IF f.type = TEXT THEN _substitute_text(f, instance.data) ELSE f
         IN  [flat |-> Concat([i \in 1..Len(block_def.elements) |->
                                  [j \in 1..Len(sub[i].flat) |-> subst(sub[i].flat[j])]]),
              src |-> [block_def EXCEPT !.elements =
                                  [i \in 1..Len(block_def.elements) |-> sub[i].src]],
              raised |-> "none"]

_resolve_block_roots_only(provider, instance) ==
    IF instance.block_id \notin DOMAIN provider
    THEN [flat |-> <<>>, src |-> NoValue, raised |-> "none"]
    ELSE LET block_def == provider[instance.block_id]
             sub == [i \in 1..Len(block_def.elements) |->
                        _flatten_tree(block_def.elements[i], instance.x, instance.y)]
             subst(f) == IF f.type = TEXT THEN _substitute_text(f, instance.data) ELSE f
         IN  [flat |-> Concat([i \in 1..Len(block_def.elements) |->
                                  [j \in 1..Len(sub[i].flat) |->
                                      IF j = 1 THEN subst(sub[i].flat[j]) ELSE sub[i].flat[j]]]),
              src |-> [block_def EXCEPT !.elements =
                                  [i \in 1..Len(block_def.elements) |-> sub[i].src]],
              raised |-> "none"]

_resolve_block(provider, instance) ==
    IF instance.block_id \notin DOMAIN provider
    THEN [flat |-> <<>>, src |-> NoValue, raised |-> "none"]
    ELSE LET block_def == provider[instance.block_id]
             sub == [i \in 1..Len(block_def.elements) |->
                        _flatten_tree(block_def.elements[i], instance.x, instance.y)]
             subst(f) == IF f.type = TEXT THEN _substitute_text(f, instance.data) ELSE f
         IN  [flat |-> Concat([i \in 1..Len(block_def.elements) |->
                                  [j \in 1..Len(sub[i].flat) |-> subst(sub[i].flat[j])]]),
              src |-> [block_def EXCEPT !.elements =
                                  [i \in 1..Len(block_def.elements) |-> sub[i].src]],
              raised |-> "none"]

(* The loop over elem.bindings of apply_bindings / _apply_bindings.        *)
RECURSIVE BindProps(_, _, _, _)
BindProps(props, bindings, i, variables) ==
    IF i > Len(bindings) THEN props
    ELSE LET binding == bindings[i]
         IN  BindProps(IF binding.variable_name \in DOMAIN variables
                       THEN DictSet(props, binding.target_property,
                                    variables[binding.variable_name])
                       ELSE props,
                       bindings, i + 1, variables)

apply_bindings(elems, variables) ==
    [i \in 1..Len(elems) |->
        [elems[i] EXCEPT !.props = BindProps(@, elems[i].bindings, 1, variables)]]

(* compile: elements = the returned list, template / block_provider = the  *)
(* caller's objects afterwards, raised = the exception raised, if any.     *)
compile(tpl, provider) ==
    LET n == Len(tpl.items)
        res == [i \in 1..n |->
                   IF IsBlockInstance(tpl.items[i])
                   THEN _resolve_block(provider, tpl.items[i])
                   ELSE _flatten_tree(tpl.items[i], 0, 0) @@ [raised |-> "none"]]
        failed == {i \in 1..n : res[i].raised # "none"}
        output_elements == Concat([i \in 1..n |-> res[i].flat])
        items_after == [i \in 1..n |->
                           IF IsBlockInstance(tpl.items[i]) THEN tpl.items[i] ELSE res[i].src]
        touched == {i \in 1..n : IsBlockInstance(tpl.items[i])
                                    /\ tpl.items[i].block_id \in DOMAIN provider}
        provider_after == [b \in DOMAIN provider |->
                              IF \E i \in touched : tpl.items[i].block_id = b
                              THEN res[CHOOSE i \in touched :
                                          /\ tpl.items[i].block_id = b
                                          /\ \A j \in touched :
                                                tpl.items[j].block_id = b => j <= i].src
                              ELSE provider[b]]
    IN  IF failed # {}
        THEN [elements |-> <<>>, template |-> tpl, block_provider |-> provider,
              raised |-> res[CHOOSE i \in failed : \A j \in failed : i <= j].raised]
        ELSE [elements |-> IF "variables" \in DOMAIN tpl
                           THEN apply_bindings(output_elements, tpl.variables)
                           ELSE output_elements,
              template |-> [tpl EXCEPT !.items = items_after],
              block_provider |-> provider_after,
              raised |-> "none"]

(***************************************************************************)
(* DocGenerator (api.py)                                                   *)
(***************************************************************************)
(* A row of table data is a digit string; a list value is a non-empty      *)
(* sequence of rows, every other value is a text.                          *)
Row(i) == ToString(i)

Rows(n) == [i \in 1..n |-> Row(i)]

TextChars == Alphabet \cup WordChars \cup {"[", "]", ","}

IsList(val) == Len(val) > 0 /\ val[1] \notin TextChars

RECURSIVE JoinRows(_)
JoinRows(rows) ==
    IF Len(rows) <= 1 THEN rows ELSE <<Head(rows), ",">> \o JoinRows(Tail(rows))

(* str(val) *)
Str(val) == IF IsList(val) THEN <<"[">> \o JoinRows(val) \o <<"]">> ELSE val

(* dict.update *)
DictUpdate(d, e) == [k \in (DOMAIN d) \cup (DOMAIN e) |-> IF k \in DOMAIN e THEN e[k] ELSE d[k]]

(* _apply_bindings: the item after the call. *)
RECURSIVE _apply_bindings(_, _)
_apply_bindings(item, d) ==
    IF IsBlockInstance(item)
    THEN [item EXCEPT !.data = DictUpdate(@, d)]
    ELSE LET bound == BindProps(item.props, item.bindings, 1, d)
             var_name == DictGet(bound, "variable_name", <<>>)
             legacy == IF var_name # <<>> /\ var_name \in DOMAIN d
                       THEN CASE item.type = TEXT -> DictSet(bound, "text", Str(d[var_name]))
                              [] item.type = IMAGE -> DictSet(bound, "image_path", Str(d[var_name]))
                              [] item.type = TABLE -> DictSet(bound, "data", d[var_name])
                              [] OTHER -> bound
                       ELSE bound
         IN  [item EXCEPT !.props = legacy,
                          !.children = [i \in 1..Len(item.children) |->
                                           _apply_bindings(item.children[i], d)]]

(* generate, up to the call of exporter.export: working = the template     *)
(* handed to export, template = self.template afterwards.                  *)
generate(tpl, d) ==
    LET h == copy_deepcopy(tpl)
        bound == [h.obj EXCEPT !.items = [i \in 1..Len(h.obj.items) |->
                                             _apply_bindings(h.obj.items[i], d)]]
    IN  [working |-> [obj |-> bound, same |-> h.same],
         template |-> IF h.same THEN bound ELSE tpl]

(***************************************************************************)
(* TemplateExporter._adjust_dynamic_heights (engine/export.py)             *)
(***************************************************************************)

RECURSIVE Factorial(_)
Factorial(n) == IF n <= 1 THEN 1 ELSE n * Factorial(n - 1)

DefaultRowsEditor == 3

(* Length unit: 1 mm = Scale units; every design row count divides Scale.  *)
Scale == Factorial(MaxRowsEditor) * DefaultRowsEditor

mm(k) == k * Scale

(* sorted(elements, key=lambda e: e.y): stable. *)
RECURSIVE InsertByY(_, _)
InsertByY(sorted, e) ==
    IF sorted = <<>> THEN <<e>>
    ELSE IF sorted[Len(sorted)].y <= e.y THEN Append(sorted, e)
    ELSE Append(InsertByY(SubSeq(sorted, 1, Len(sorted) - 1), e), sorted[Len(sorted)])

RECURSIVE SortByY(_)
SortByY(elems) ==
    IF elems = <<>> THEN <<>>
    ELSE InsertByY(SortByY(SubSeq(elems, 1, Len(elems) - 1)), elems[Len(elems)])

sorted(elems) == SortByY(elems)

(* row_height = base_height / num_rows_editor *)
RowHeightOfCurrent(elem, base_height, num_rows_editor) == elem.height \div num_rows_editor

RowHeight(elem, base_height, num_rows_editor) == base_height \div num_rows_editor

(* The for loop from index i on. *)
RECURSIVE AdjustLoop(_, _, _)
AdjustLoop(sorted_elements, i, cumulative_offset) ==
    IF i > Len(sorted_elements)
    THEN [elements |-> sorted_elements, raised |-> "none"]
    ELSE LET elem == [sorted_elements[i] EXCEPT !.y = @ + cumulative_offset]
             rows == DictGet(elem.props, "data", <<>>)
         IN  IF elem.type = TABLE
             THEN IF rows = <<>>
                  THEN AdjustLoop([sorted_elements EXCEPT ![i] = elem], i + 1, cumulative_offset)
                  ELSE LET props1 == IF "base_height" \notin DOMAIN elem.props
                                     THEN DictSet(elem.props, "base_height", elem.height)
                                     ELSE elem.props
                           base_height == props1["base_height"]
                           num_rows_data == Len(rows)
                           num_rows_editor == DictGet(props1, "num_rows_editor", DefaultRowsEditor)
                       IN  IF num_rows_editor = 0
                           THEN [elements |-> [sorted_elements EXCEPT
                                                  ![i] = [elem EXCEPT !.props = props1]],
                                 raised |-> "ZeroDivisionError"]
                           ELSE LET row_height == RowHeight(elem, base_height, num_rows_editor)
                                    new_height == row_height * num_rows_data
                                    height_delta == new_height - elem.height
                                    done == [elem EXCEPT
                                                !.props = DictSet(props1, "row_height", row_height),
                                                !.height = new_height]
                                IN  AdjustLoop([sorted_elements EXCEPT ![i] = done], i + 1,
                                               cumulative_offset + height_delta)
             ELSE IF elem.type = TEXT_BOX
             THEN AdjustLoop([sorted_elements EXCEPT ![i] =
                                 IF "base_height" \notin DOMAIN elem.props
                                 THEN [elem EXCEPT !.props = DictSet(@, "base_height", elem.height)]
                                 ELSE elem],
                             i + 1, cumulative_offset)
             ELSE AdjustLoop([sorted_elements EXCEPT ![i] = elem], i + 1, cumulative_offset)

(* the pass with text boxes grown on the spot *)
_adjust_dynamic_heights_eager(elems) ==
    LET r == AdjustLoop(sorted(elems), 1, 0)
    IN  [r EXCEPT !.elements =
            [k \in 1..Len(r.elements) |->
                IF r.elements[k].type = TEXT_BOX
                THEN [r.elements[k] EXCEPT !.height = @ + mm(1)]
                ELSE r.elements[k]]]

_adjust_dynamic_heights(elems) == AdjustLoop(sorted(elems), 1, 0)

(***************************************************************************)
(* Text measurement and wrapping (export.py, reportlab's simpleSplit)      *)
(*                                                                         *)
(* Font sizes are whole points.  A length in points is an integer in units *)
(* of 1/(100000 * Scale) pt, so that mm_to_pt is exact.                    *)
(***************************************************************************)
None == [is_none |-> TRUE]

IsNone(v) == "is_none" \in DOMAIN v

(* Before export has reached the paginator and the renderer. *)
ExportIdle ==
    /\ pages = <<>>
    /\ current_page = 0
    /\ current_y = 0
    /\ remaining_elem = None
    /\ next_index = 0
    /\ renderer = <<>>
    /\ position = [page |-> 0, elem |-> 0]
    /\ scene = NoValue

NL == "\n"

MM_TO_PT == 283465

(* mm_to_pt(mm) == mm * 2.83465 *)
mm_to_pt(v) == v * MM_TO_PT

(* A props value that is a str, and one that is a list (unhashable). *)
PyStr(val) == [kind |-> "str", val |-> val]

PyList(items) == [kind |-> "list", items |-> items]

FONT_MAPPING ==
    [k \in {"Arial", "Helvetica", "Times New Roman", "Times", "Courier New", "Courier"} |->
        CASE k \in {"Arial", "Helvetica"} -> "Helvetica"
          [] k \in {"Times New Roman", "Times"} -> "Times-Roman"
          [] k \in {"Courier New", "Courier"} -> "Courier"]

(* resolve with the style flags ignored *)
FontHelper_resolve_no_style(font_name, bold, italic) ==
    IF font_name.kind # "str"
    THEN [name |-> "", raised |-> "TypeError"]
    ELSE [name |-> DictGet(FONT_MAPPING, font_name.val, "Helvetica"), raised |-> "none"]

(* FontHelper.resolve: name = the returned font, raised = the exception raised
   ("none" when it returns); FONT_MAPPING.get raises TypeError on an unhashable
   key. *)
FontHelper_resolve(font_name, bold, italic) ==
    IF font_name.kind # "str"
    THEN [name |-> "", raised |-> "TypeError"]
    ELSE LET base == DictGet(FONT_MAPPING, font_name.val, "Helvetica")
         IN  [name |->
                 CASE base = "Helvetica" ->
                          IF bold /\ italic THEN "Helvetica-BoldOblique"
                          ELSE IF bold THEN "Helvetica-Bold"
                          ELSE IF italic THEN "Helvetica-Oblique"
                          ELSE "Helvetica"
                   [] base = "Times-Roman" ->
                          IF bold /\ italic THEN "Times-BoldItalic"
                          ELSE IF bold THEN "Times-Bold"
                          ELSE IF italic THEN "Times-Italic"
                          ELSE "Times-Roman"
                   [] base = "Courier" ->
                          IF bold /\ italic THEN "Courier-BoldOblique"
                          ELSE IF bold THEN "Courier-Bold"
                          ELSE IF italic THEN "Courier-Oblique"
                          ELSE "Courier"
                   [] OTHER -> base,
              raised |-> "none"]

(* Advance width of a glyph in 1/1000 em (standard font metrics). *)
GlyphWidth(c, font_name) ==
    IF font_name \in {"Courier", "Courier-Bold", "Courier-Oblique", "Courier-BoldOblique"}
    THEN 600
    ELSE IF font_name = "Times-Roman" THEN (IF c = " " THEN 250 ELSE 444)
    ELSE IF font_name \in {"Times-Bold", "Times-Italic", "Times-BoldItalic"}
    THEN (IF c = " " THEN 250 ELSE 500)
    ELSE (IF c = " " THEN 278 ELSE 556)

RECURSIVE GlyphSum(_, _)
GlyphSum(s, font_name) ==
    IF s = <<>> THEN 0 ELSE GlyphWidth(Head(s), font_name) + GlyphSum(Tail(s), font_name)

stringWidth(s, font_name, font_size) == GlyphSum(s, font_name) * font_size * 100 * Scale

(* line_height_mm = font_size * 1.2 / 2.83465, to the next length unit below *)
line_height_mm(font_size) == (font_size * 120000 * Scale) \div MM_TO_PT

(* s.split(sep) for a one-character separator *)
RECURSIVE SplitOn(_, _, _)
SplitOn(s, sep, cur) ==
    IF s = <<>> THEN <<cur>>
    ELSE IF Head(s) = sep THEN <<cur>> \o SplitOn(Tail(s), sep, <<>>)
    ELSE SplitOn(Tail(s), sep, Append(cur, Head(s)))

(* s.split(): the maximal runs of non-blank characters *)
RECURSIVE SplitWords(_, _)
SplitWords(s, cur) ==
    IF s = <<>> THEN (IF cur = <<>> THEN <<>> ELSE <<cur>>)
    ELSE IF Head(s) \in {" ", NL}
         THEN (IF cur = <<>> THEN <<>> ELSE <<cur>>) \o SplitWords(Tail(s), <<>>)
         ELSE SplitWords(Tail(s), Append(cur, Head(s)))

(* sep.join(parts) *)
RECURSIVE Join(_, _)
Join(parts, sep) ==
    IF parts = <<>> THEN <<>>
    ELSE IF Len(parts) = 1 THEN parts[1]
    ELSE parts[1] \o <<sep>> \o Join(Tail(parts), sep)

(* reportlab _simpleSplit: greedy fill, a word wider than the line stands alone *)
RECURSIVE SimpleSplitWords(_, _, _, _, _, _)
SimpleSplitWords(words, O, w, mW, font_name, font_size) ==
    IF words = <<>> THEN (IF O # <<>> THEN <<Join(O, " ")>> ELSE <<>>)
    ELSE LET t  == Head(words)
             ws == stringWidth(<<" ">>, font_name, font_size)
             lt == stringWidth(t, font_name, font_size)
         IN  IF w + ws + lt <= mW \/ O = <<>>
             THEN SimpleSplitWords(Tail(words), Append(O, t), w + ws + lt, mW, font_name, font_size)
             ELSE <<Join(O, " ")>>
                  \o SimpleSplitWords(Tail(words), <<t>>, lt, mW, font_name, font_size)

(* simpleSplit(p, font_name, font_size, width_pt) for a paragraph without line break *)
simpleSplit(p, font_name, font_size, maxWidth) ==
    IF maxWidth # 0
    THEN SimpleSplitWords(SplitWords(p, <<>>), <<>>,
                          0 - stringWidth(<<" ">>, font_name, font_size),
                          maxWidth, font_name, font_size)
    ELSE <<p>>

(* paragraphs = text.split('\n'); lines = [] ; for p in paragraphs: ... *)
RECURSIVE WrapParagraphs(_, _, _, _)
WrapParagraphs(paragraphs, font_name, font_size, width_pt) ==
    IF paragraphs = <<>> THEN <<>>
    ELSE (IF Head(paragraphs) = <<>> THEN <<<<>>>>
          ELSE simpleSplit(Head(paragraphs), font_name, font_size, width_pt))
         \o WrapParagraphs(Tail(paragraphs), font_name, font_size, width_pt)

DefaultFontSize == 12

(* try: font_name = FontHelper.resolve(...)  except: font_name = "Helvetica" *)
FontNameOf(elem) ==
    LET font_family == DictGet(elem.props, "font_family", PyStr("Helvetica"))
        bold == DictGet(elem.props, "font_bold", FALSE)
        italic == DictGet(elem.props, "font_italic", FALSE)
        r == FontHelper_resolve(font_family, bold, italic)
    IN  IF r.raised = "none" THEN r.name ELSE "Helvetica"

FontSizeOf(elem) == DictGet(elem.props, "font_size", DefaultFontSize)

LinesOf(elem, text) ==
    WrapParagraphs(SplitOn(text, NL, <<>>), FontNameOf(elem), FontSizeOf(elem),
                   mm_to_pt(elem.width))

(***************************************************************************)
(* Splitting (export.py: _split_table, _split_textbox)                     *)
(***************************************************************************)
DefaultRowHeight == mm(20)

(* int(available_height / row_height), one row too many *)
RowsThatFitRoundedUp(available_height, row_height) ==
    (available_height + row_height - 1) \div row_height

(* rows_that_fit = int(available_height / row_height) *)
RowsThatFit(available_height, row_height) == available_height \div row_height

_split_table(elem, available_height) ==
    LET row_height == DictGet(elem.props, "row_height", DefaultRowHeight)
        rows == DictGet(elem.props, "data", <<>>)
    IN  IF rows = <<>> \/ available_height < row_height
        THEN [first |-> None, remaining |-> elem, raised |-> "none"]
        ELSE IF row_height = 0
        THEN [first |-> None, remaining |-> None, raised |-> "ZeroDivisionError"]
        ELSE LET rows_that_fit == RowsThatFit(available_height, row_height)
             IN  IF rows_that_fit >= Len(rows)
                 THEN [first |-> elem, remaining |-> None, raised |-> "none"]
                 ELSE LET first_part_data == SubSeq(rows, 1, rows_that_fit)
                          remaining_data == SubSeq(rows, rows_that_fit + 1, Len(rows))
                      IN  [first |-> [elem EXCEPT
                                         !.props = DictSet(@, "data", first_part_data),
                                         !.height = rows_that_fit * row_height],
                           remaining |-> [elem EXCEPT
                                             !.props = DictSet(@, "data", remaining_data),
                                             !.height = Len(remaining_data) * row_height],
                           raised |-> "none"]

(* "\n".join(lines), joined by a blank instead *)
JoinLinesBySpace(lines) == Join(lines, " ")

(* "\n".join(lines) *)
JoinLines(lines) == Join(lines, NL)

_split_textbox(elem, available_height) ==
    LET font_size == FontSizeOf(elem)
        line_height == line_height_mm(font_size)
        text == DictGet(elem.props, "text", <<>>)
    IN  IF text = <<>> \/ available_height < line_height
        THEN [first |-> None, remaining |-> elem, raised |-> "none"]
        ELSE IF line_height = 0
        THEN [first |-> None, remaining |-> None, raised |-> "ZeroDivisionError"]
        ELSE LET lines_that_fit == available_height \div line_height
                 lines == LinesOf(elem, text)
             IN  IF Len(lines) <= lines_that_fit
                 THEN [first |-> [elem EXCEPT !.height = Len(lines) * line_height],
                       remaining |-> None, raised |-> "none"]
                 ELSE LET first_part_lines == SubSeq(lines, 1, lines_that_fit)
                          remaining_lines == SubSeq(lines, lines_that_fit + 1, Len(lines))
                      IN  [first |-> [elem EXCEPT
                                         !.props = DictSet(@, "text", JoinLines(first_part_lines)),
                                         !.height = lines_that_fit * line_height],
                           remaining |-> [elem EXCEPT
                                             !.props = DictSet(@, "text", JoinLines(remaining_lines)),
                                             !.height = Len(remaining_lines) * line_height],
                           raised |-> "none"]

(***************************************************************************)
(* Export: mode selection, pagination, rendering (export.py)               *)
(***************************************************************************)
THERMAL_PAPER_58MM == 58
THERMAL_PAPER_80MM == 80
THERMAL_PAPER_BOTTOM_MARGIN_MM == 10

(* project settings of a template: top margin of continuation pages *)
Settings(page_top_margin_mm) == [page_top_margin_mm |-> page_top_margin_mm]

(* is_thermal = page_w in [58], the 80 mm roll forgotten *)
is_thermal_58_only(page_w) == page_w = mm(THERMAL_PAPER_58MM)

(* is_thermal = page_w in [THERMAL_PAPER_58MM, THERMAL_PAPER_80MM] *)
is_thermal(page_w) == page_w \in {mm(THERMAL_PAPER_58MM), mm(THERMAL_PAPER_80MM)}

Max(a, b) == IF a >= b THEN a ELSE b

Range(f) == {f[k] : k \in DOMAIN f}

(* max_y = 0; for elem in elements: max_y = max(max_y, elem.y + elem.height) *)
RECURSIVE MaxBottom(_, _)
MaxBottom(elems, max_y) ==
    IF elems = <<>> THEN max_y
    ELSE MaxBottom(Tail(elems), Max(max_y, Head(elems).y + Head(elems).height))

(* actual_height = max_y, the bottom margin forgotten *)
actual_height_no_margin(elems) == MaxBottom(elems, 0)

(* actual_height = max_y + THERMAL_PAPER_BOTTOM_MARGIN_MM *)
actual_height(elems) == MaxBottom(elems, 0) + mm(THERMAL_PAPER_BOTTOM_MARGIN_MM)

(* pages[current_page].append(e); current_page counts from 0 *)
(* the element put before the others of its page *)
PrependToPage(pp, page, e) == [pp EXCEPT ![page + 1] = <<e>> \o @]

AppendToPage(pp, page, e) == [pp EXCEPT ![page + 1] = Append(@, e)]

(* The height a text box has when the fit test is made (export.py 99-132). *)
MeasuredHeight(elem) ==
    IF elem.type = TEXT_BOX /\ DictGet(elem.props, "text", <<>>) # <<>>
    THEN Len(LinesOf(elem, elem.props["text"])) * line_height_mm(FontSizeOf(elem))
    ELSE elem.height

(* current_y of a page opened for the remaining part, the margin dropped *)
ContinuationYZero(margin) == 0

(* current_y = top_margin: where the remaining part of a split starts *)
ContinuationY(margin) == margin

(* current_y = 0.0: where an element moved whole to the next page starts *)
MovedY(margin) == 0

(***************************************************************************)
(* Specification of _substitute_text over all short texts                  *)
(***************************************************************************)
SubstData == {EmptyDict, [k \in {<<"n">>} |-> <<"V">>]}

InitSubst ==
    /\ pc = "subst"
    /\ \E t \in BoundedSeq(Alphabet, MaxTextLen) :
           elements = <<Element(1, TEXT, 0, 0, 0, 0, [k \in {"text"} |-> t], <<>>, <<>>)>>
    /\ data \in SubstData
    /\ template = NoValue
    /\ block_provider = NoValue
    /\ working_template = NoValue
    /\ err = "none"
    /\ snapshot = [elements |-> elements]
    /\ ExportIdle

SubstituteText ==
    /\ pc = "subst"
    /\ elements' = <<_substitute_text(elements[1], data)>>
    /\ pc' = "substituted"
    /\ UNCHANGED <<template, block_provider, data, working_template, err, snapshot>>
    /\ UNCHANGED expvars

NextSubst == SubstituteText

SpecSubst == InitSubst /\ [][NextSubst]_vars

(***************************************************************************)
(* The export pipeline                                                     *)
(***************************************************************************)
Name_n == <<"n">>
Name_rows == <<"n", "n">>

GlobalMaps ==
    {EmptyDict,
     [k \in {Name_n} |-> <<"W">>],
     [k \in {Name_n, Name_rows} |-> IF k = Name_n THEN <<"W">> ELSE Rows(4)]}

Prop(k, v) == [j \in {k} |-> v]

(* Items a template is built from; the local y of a node is cy[1] at odd depth and
   cy[2] at even depth, its local x is its id. *)
TreeItem(cy) ==
    Element(1, CONTAINER, mm(1), mm(cy[1]), mm(50), mm(50), EmptyDict, <<>>,
        << Element(2, CONTAINER, mm(2), mm(cy[2]), mm(20), mm(20), EmptyDict, <<>>,
               << Element(4, CONTAINER, mm(4), mm(cy[1]), mm(10), mm(10), EmptyDict, <<>>,
                      << Element(6, TEXT, mm(6), mm(cy[2]), mm(5), mm(5),
                                 Prop("text", <<"n", "!">>),
                                 <<VariableBinding(Name_n, "text")>>, <<>>) >>) >>),
           Element(3, CONTAINER, mm(3), mm(cy[2]), mm(20), mm(20), EmptyDict, <<>>,
               << Element(5, RECT, mm(5), mm(cy[1]), mm(10), mm(10),
                          Prop("fill_color", <<"V">>),
                          <<VariableBinding(Name_n, "fill_color")>>, <<>>) >>) >>)

TableItem(cy) ==
    Element(7, TABLE, mm(7), mm(cy[1]), mm(100), mm(3), Prop("data", Rows(2)),
            <<VariableBinding(Name_rows, "data")>>, <<>>)

LegacyItem(cy) ==
    Element(8, TEXT, mm(8), mm(cy[1]), mm(40), mm(5),
            Prop("text", <<"V">>) @@ Prop("variable_name", Name_n), <<>>, <<>>)

HeaderBlock(cy) ==
    BlockBase("hdr",
        << Element(9, RECT, mm(0), mm(cy[1]), mm(210), mm(30), EmptyDict, <<>>, <<>>),
           Element(10, TEXT, mm(10), mm(cy[1]), mm(100), mm(10),
                   Prop("text", <<"{", "{", " ", "n", "}", "}">>), <<>>,
                   << Element(11, TEXT, mm(11), mm(cy[2]), mm(50), mm(5),
                              Prop("text", <<"{", "{", "n", "}", "}", "!">>),
                              <<VariableBinding(Name_n, "text")>>, <<>>) >>) >>)

Instances ==
    {BlockInstance(21, "hdr", mm(10), mm(20), Prop(Name_n, <<"V">>)),
     BlockInstance(22, "hdr", mm(30), mm(5), EmptyDict),
     BlockInstance(23, "missing", mm(40), mm(40), Prop(Name_n, <<"V">>))}

ItemPool(cy) == {TreeItem(cy), TableItem(cy), LegacyItem(cy)} \cup Instances

PageSize(width, height) == [width |-> width, height |-> height]

Template(items) == [page_size |-> PageSize(mm(210), mm(297)), items |-> items]

Init ==
    /\ pc = "idle"
    /\ \E cy \in [1..2 -> 0..MaxCoord] :
         /\ block_provider = [b \in {"hdr"} |-> HeaderBlock(cy)]
         /\ \E m \in 1..MaxItems : \E items \in [1..m -> ItemPool(cy)] :
              \E d \in GlobalMaps : \E has_variables \in BOOLEAN :
                 /\ data = d
                 /\ template = IF has_variables
                               THEN Template(items) @@ [variables |-> d]
                               ELSE Template(items)
    /\ working_template = NoValue
    /\ elements = <<>>
    /\ err = "none"
    /\ snapshot = [template |-> template, block_provider |-> block_provider,
                   entry |-> "none", elements |-> <<>>]
    /\ ExportIdle

(* DocGenerator.generate(data, output_path), up to exporter.export(...) *)
Generate ==
    /\ pc = "idle"
    /\ LET g == generate(template, data)
       IN  /\ working_template' = g.working
           /\ template' = g.template
    /\ snapshot' = [snapshot EXCEPT !.entry = "generate"]
    /\ pc' = "export"
    /\ UNCHANGED <<block_provider, data, elements, err>>
    /\ UNCHANGED expvars

(* TemplateExporter.export(template, renderer, output_path) called directly *)
Export ==
    /\ pc = "idle"
    /\ working_template' = [obj |-> template, same |-> TRUE]
    /\ snapshot' = [snapshot EXCEPT !.entry = "export"]
    /\ pc' = "export"
    /\ UNCHANGED <<template, block_provider, data, elements, err>>
    /\ UNCHANGED expvars

(* export: elements = self.engine.compile(template) *)
Compile ==
    /\ pc = "export"
    /\ LET r == compile(working_template.obj, block_provider)
       IN  /\ elements' = r.elements
           /\ working_template' = [working_template EXCEPT !.obj = r.template]
           /\ template' = IF working_template.same THEN r.template ELSE template
           /\ block_provider' = r.block_provider
           /\ err' = r.raised
           /\ pc' = IF r.raised = "none" THEN "compiled" ELSE "failed"
    /\ snapshot' = [snapshot EXCEPT !.elements = elements']
    /\ UNCHANGED data
    /\ UNCHANGED expvars

(* export: elements = self._adjust_dynamic_heights(elements) *)
AdjustDynamicHeights ==
    /\ pc = "compiled"
    /\ LET r == _adjust_dynamic_heights(elements)
       IN  /\ elements' = r.elements
           /\ err' = r.raised
           /\ pc' = IF r.raised = "none" THEN "resized" ELSE "failed"
    /\ UNCHANGED <<template, block_provider, data, working_template, snapshot>>
    /\ UNCHANGED expvars

Next == Generate \/ Export \/ Compile \/ AdjustDynamicHeights

Spec == Init /\ [][Next]_vars

(***************************************************************************)
(* Specification of _adjust_dynamic_heights over all short element lists   *)
(***************************************************************************)
NumRowsEditorChoices == {EmptyDict} \cup {Prop("num_rows_editor", n) : n \in 0..MaxRowsEditor}

BaseHeightChoices == {EmptyDict, Prop("base_height", mm(2))}

FlatChoices(id) ==
    {Element(id, RECT, mm(id), mm(y), mm(10), mm(1), EmptyDict, <<>>, <<>>) : y \in 0..MaxY}
    \cup
    {Element(id, TEXT_BOX, mm(id), mm(y), mm(10), mm(1), pb, <<>>, <<>>) :
        y \in 0..MaxY, pb \in BaseHeightChoices}
    \cup
    {Element(id, TABLE, mm(id), mm(y), mm(10), mm(1),
             (IF n = 0 THEN EmptyDict ELSE Prop("data", Rows(n))) @@ pe @@ pb, <<>>, <<>>) :
        y \in 0..MaxY, n \in 0..MaxRows, pe \in NumRowsEditorChoices, pb \in BaseHeightChoices}

(* A rectangle, a text box or a table of DefaultRowsEditor + 1 rows. *)
PlainChoices(id) ==
    {Element(id, t, mm(id), mm(y), mm(10), mm(1), EmptyDict, <<>>, <<>>) :
        t \in {RECT, TEXT_BOX}, y \in 0..MaxY}
    \cup
    {Element(id, TABLE, mm(id), mm(y), mm(10), mm(1),
             Prop("data", Rows(DefaultRowsEditor + 1)), <<>>, <<>>) : y \in 0..MaxY}

(* Lists of m elements, ids 1..m in list order, the r-th drawn from FlatChoices. *)
RECURSIVE FlatLists(_, _)
FlatLists(m, r) ==
    IF m = 0 THEN {<<>>}
    ELSE {Append(l, e) : l \in FlatLists(m - 1, r),
                         e \in (IF m = r THEN FlatChoices(m) ELSE PlainChoices(m))}

InitResize ==
    /\ pc = "compiled"
    /\ \E m \in 1..MaxElems : \E r \in 1..m : elements \in FlatLists(m, r)
    /\ data = EmptyDict
    /\ template = NoValue
    /\ block_provider = NoValue
    /\ working_template = NoValue
    /\ err = "none"
    /\ snapshot = [elements |-> elements]
    /\ ExportIdle

NextResize == AdjustDynamicHeights

SpecResize == InitResize /\ [][NextResize]_vars

(* _render_element: the renderer calls one element is translated into *)
Call(op, elem) ==
    [op |-> op, id |-> elem.id, y |-> mm_to_pt(elem.y), height |-> mm_to_pt(elem.height),
     content |-> IF elem.type = TABLE THEN DictGet(elem.props, "data", <<>>)
                 ELSE DictGet(elem.props, "text", <<>>)]

_render_element(elem) ==
    IF elem.type = RECT THEN <<Call("draw_rect", elem)>>
    ELSE IF elem.type = TEXT THEN <<Call("draw_text", elem)>>
    ELSE IF elem.type = TEXT_BOX
    THEN (IF "background_color" \in DOMAIN elem.props \/ DictGet(elem.props, "show_border", FALSE)
          THEN <<Call("draw_rect", elem)>> ELSE <<>>)
         \o <<Call("draw_text", elem)>>
    ELSE IF elem.type = IMAGE THEN <<Call("draw_image", elem)>>
    ELSE IF elem.type = LINE THEN <<Call("draw_line", elem)>>
    ELSE IF elem.type = KV_BOX
    THEN (IF DictGet(elem.props, "show_outline", TRUE)
          THEN <<Call("draw_rect", elem), Call("draw_line", elem)>> ELSE <<>>)
         \o <<Call("draw_text", elem), Call("draw_text", elem)>>
    ELSE IF elem.type = CONTAINER
    THEN (IF DictGet(elem.props, "bg_type", "transparent") = "solid"
             \/ DictGet(elem.props, "show_outline", FALSE)
          THEN <<Call("draw_rect", elem)>> ELSE <<>>)
    ELSE IF elem.type = TABLE THEN <<Call("draw_table", elem)>>
    ELSE <<>>

page_w == template.page_size.width

page_h == template.page_size.height

top_margin == template.settings.page_top_margin_mm

(* A run of the paginator that ends opens at most one page for an element *)
(* moved whole and one page for each row or line of a split element; the  *)
(* while loops are followed until one page more than that exists.         *)
RECURSIVE PageBound(_)
PageBound(elems) ==
    IF elems = <<>> THEN 1
    ELSE 1 + Len(DictGet(Head(elems).props, "data", <<>>))
           + Len(LinesOf(Head(elems), DictGet(Head(elems).props, "text", <<>>)))
           + PageBound(Tail(elems))

(* export, fixed page size: pages = [[]]; current_page = 0; current_y = 0.0 *)
PaginateBegin ==
    /\ pc = "resized"
    /\ ~ is_thermal(page_w)
    /\ pages' = <<<<>>>>
    /\ current_page' = 0
    /\ current_y' = 0
    /\ next_index' = 1
    /\ pc' = "paginate"
    /\ UNCHANGED <<template, block_provider, data, working_template, elements, err, snapshot,
                   remaining_elem, renderer, position>>
    /\ UNCHANGED scene

(* _paginate_elements: one turn of "for elem in elements" up to the split loops *)
PaginateElement ==
    /\ pc = "paginate"
    /\ next_index <= Len(elements)
    /\ LET elem_copy == [elements[next_index] EXCEPT !.height = MeasuredHeight(elements[next_index])]
           available_height == page_h - current_y
       IN  IF elem_copy.height <= available_height
           THEN /\ pages' = AppendToPage(pages, current_page, [elem_copy EXCEPT !.y = current_y])
                /\ current_y' = current_y + elem_copy.height
                /\ next_index' = next_index + 1
                /\ UNCHANGED <<pc, current_page, remaining_elem>>
           ELSE IF elem_copy.type \in {TABLE, TEXT_BOX}
           THEN /\ remaining_elem' = elem_copy
                /\ pc' = IF elem_copy.type = TABLE THEN "split_table" ELSE "split_textbox"
                /\ UNCHANGED <<pages, current_page, current_y, next_index>>
           ELSE /\ current_page' = current_page + 1
                /\ pages' = Append(pages, <<[elem_copy EXCEPT !.y = MovedY(top_margin)]>>)
                /\ current_y' = MovedY(top_margin) + elem_copy.height
                /\ next_index' = next_index + 1
                /\ UNCHANGED <<pc, remaining_elem>>
    /\ UNCHANGED <<template, block_provider, data, working_template, elements, err, snapshot,
                   renderer, position>>
    /\ UNCHANGED scene

(* One turn of "while remaining_elem is not None" with the given split. *)
SplitTurn(r) ==
    IF r.raised # "none"
    THEN /\ err' = r.raised
         /\ pc' = "failed"
         /\ UNCHANGED <<pages, current_page, current_y, remaining_elem, next_index>>
    ELSE /\ err' = err
         /\ LET placed == IF IsNone(r.first) THEN pages
                          ELSE AppendToPage(pages, current_page, [r.first EXCEPT !.y = current_y])
            IN  IF ~ IsNone(r.remaining)
                THEN /\ current_page' = current_page + 1
                     /\ pages' = Append(placed, <<>>)
                     /\ current_y' = ContinuationY(top_margin)
                     /\ remaining_elem' = r.remaining
                     /\ UNCHANGED <<pc, next_index>>
                ELSE /\ pages' = placed
                     /\ remaining_elem' = None
                     /\ current_y' = IF ~ IsNone(r.first) THEN current_y + r.first.height
                                     ELSE page_h
                     /\ next_index' = next_index + 1
                     /\ pc' = "paginate"
                     /\ UNCHANGED current_page

(* _paginate_elements: one turn of the table loop *)
SplitTable ==
    /\ pc = "split_table"
    /\ Len(pages) <= PageBound(elements)
    /\ SplitTurn(_split_table(remaining_elem, page_h - current_y))
    /\ UNCHANGED <<template, block_provider, data, working_template, elements, snapshot,
                   renderer, position>>
    /\ UNCHANGED scene

(* _paginate_elements: one turn of the text box loop *)
SplitTextbox ==
    /\ pc = "split_textbox"
    /\ Len(pages) <= PageBound(elements)
    /\ SplitTurn(_split_textbox(remaining_elem, page_h - current_y))
    /\ UNCHANGED <<template, block_provider, data, working_template, elements, snapshot,
                   renderer, position>>
    /\ UNCHANGED scene

(* _paginate_elements: return pages *)
PaginateReturn ==
    /\ pc = "paginate"
    /\ next_index > Len(elements)
    /\ pc' = "paginated"
    /\ UNCHANGED <<template, block_provider, data, working_template, elements, err, snapshot,
                   pages, current_page, current_y, remaining_elem, next_index, renderer, position>>
    /\ UNCHANGED scene

(* export: renderer.set_page_size(...) of the thermal and of the fixed branch. *)
(* The single thermal page is the element list itself.                       *)
SetPageSize ==
    /\ \/ /\ pc = "resized"
          /\ is_thermal(page_w)
          /\ renderer' = Append(renderer, [op |-> "set_page_size", width |-> mm_to_pt(page_w),
                                           height |-> mm_to_pt(actual_height(elements))])
          /\ pages' = <<elements>>
       \/ /\ pc = "paginated"
          /\ renderer' = Append(renderer, [op |-> "set_page_size", width |-> mm_to_pt(page_w),
                                           height |-> mm_to_pt(page_h)])
          /\ pages' = pages
    /\ pc' = "sized"
    /\ UNCHANGED <<template, block_provider, data, working_template, elements, err, snapshot,
                   current_page, current_y, remaining_elem, next_index, position>>
    /\ UNCHANGED scene

(* export: renderer.initialize(output_path) *)
Initialize ==
    /\ pc = "sized"
    /\ renderer' = Append(renderer, [op |-> "initialize"])
    /\ position' = [page |-> 1, elem |-> 1]
    /\ pc' = "pages"
    /\ UNCHANGED <<template, block_provider, data, working_template, elements, err, snapshot,
                   pages, current_page, current_y, remaining_elem, next_index>>
    /\ UNCHANGED scene

(* export: renderer.start_page() *)
StartPage ==
    /\ pc = "pages"
    /\ position.page <= Len(pages)
    /\ renderer' = Append(renderer, [op |-> "start_page"])
    /\ position' = [position EXCEPT !.elem = 1]
    /\ pc' = "page"
    /\ UNCHANGED <<template, block_provider, data, working_template, elements, err, snapshot,
                   pages, current_page, current_y, remaining_elem, next_index>>
    /\ UNCHANGED scene

(* export: self._render_element(elem, renderer) *)
RenderElement ==
    /\ pc = "page"
    /\ position.elem <= Len(pages[position.page])
    /\ renderer' = renderer \o _render_element(pages[position.page][position.elem])
    /\ position' = [position EXCEPT !.elem = @ + 1]
    /\ UNCHANGED <<pc, template, block_provider, data, working_template, elements, err, snapshot,
                   pages, current_page, current_y, remaining_elem, next_index>>
    /\ UNCHANGED scene

(* export: the page is left without renderer.end_page() *)
EndPageForgotten ==
    /\ pc = "page"
    /\ position.elem > Len(pages[position.page])
    /\ position' = [position EXCEPT !.page = @ + 1]
    /\ pc' = "pages"
    /\ UNCHANGED <<template, block_provider, data, working_template, elements, err, snapshot,
                   pages, current_page, current_y, remaining_elem, next_index, renderer>>
    /\ UNCHANGED scene

(* export: renderer.end_page() *)
EndPage ==
    /\ pc = "page"
    /\ position.elem > Len(pages[position.page])
    /\ renderer' = Append(renderer, [op |-> "end_page"])
    /\ position' = [position EXCEPT !.page = @ + 1]
    /\ pc' = "pages"
    /\ UNCHANGED <<template, block_provider, data, working_template, elements, err, snapshot,
                   pages, current_page, current_y, remaining_elem, next_index>>
    /\ UNCHANGED scene

(* export: renderer.save(output_path) *)
Save ==
    /\ pc = "pages"
    /\ position.page > Len(pages)
    /\ renderer' = Append(renderer, [op |-> "save"])
    /\ pc' = "saved"
    /\ UNCHANGED <<template, block_provider, data, working_template, elements, err, snapshot,
                   pages, current_page, current_y, remaining_elem, next_index, position>>
    /\ UNCHANGED scene

(***************************************************************************)
(* Specification of export from the compiled element list on               *)
(***************************************************************************)
TextBox(id, y, width, text) ==
    Element(id, TEXT_BOX, mm(id), mm(y), mm(width), mm(1),
            Prop("text", text) @@ Prop("font_size", 3), <<>>, <<>>)

PageTexts ==
    {<<>>, <<"a">>, <<"a", NL>>, <<"a", " ", "a", " ", "a">>, <<"a", NL, NL, "a", " ", "a">>}

(* Any element the paginator is tried on at one place of the list. *)
PageChoices(id) ==
    {Element(id, t, mm(id), mm(y), mm(10), mm(h), EmptyDict, <<>>, <<>>) :
        t \in {RECT, LINE}, y \in 0..MaxY, h \in {0, 1, 2, 4}}
    \cup
    {Element(id, TABLE, mm(id), mm(y), mm(10), mm(3),
             (IF n = 0 THEN EmptyDict ELSE Prop("data", Rows(n))) @@ pe, <<>>, <<>>) :
        y \in 0..MaxY, n \in 0..(MaxRows + 3),
        pe \in {EmptyDict, Prop("num_rows_editor", 1)}}
    \cup
    {TextBox(id, y, w, t) : y \in 0..MaxY, w \in 1..2, t \in PageTexts}

(* A rectangle of 1 mm or a table of 3 rows of 1 mm. *)
PagePlainChoices(id) ==
    {Element(id, RECT, mm(id), mm(y), mm(10), mm(1), EmptyDict, <<>>, <<>>) : y \in {0, MaxY}}
    \cup
    {Element(id, TABLE, mm(id), 0, mm(10), mm(3), Prop("data", Rows(3)), <<>>, <<>>)}

RECURSIVE PageLists(_, _)
PageLists(m, r) ==
    IF m = 0 THEN {<<>>}
    ELSE {Append(l, e) : l \in PageLists(m - 1, r),
                         e \in (IF m = r THEN PageChoices(m) ELSE PagePlainChoices(m))}

PageWidths == {THERMAL_PAPER_58MM, THERMAL_PAPER_80MM, 210}

InitExport ==
    /\ pc = "compiled"
    /\ \E m \in 1..MaxElems : \E r \in 1..m : elements \in PageLists(m, r)
    /\ \E w \in PageWidths : \E margin \in 0..1 :
          template = [page_size |-> PageSize(mm(w), mm(3)),
                      settings |-> Settings(mm(margin)), items |-> <<>>]
    /\ data = EmptyDict
    /\ block_provider = NoValue
    /\ working_template = NoValue
    /\ err = "none"
    /\ snapshot = [elements |-> elements]
    /\ ExportIdle

NextExport ==
    \/ AdjustDynamicHeights
    \/ PaginateBegin
    \/ PaginateElement
    \/ SplitTable
    \/ SplitTextbox
    \/ PaginateReturn
    \/ SetPageSize
    \/ Initialize
    \/ StartPage
    \/ RenderElement
    \/ EndPage
    \/ Save

SpecExport == InitExport /\ [][NextExport]_vars

(***************************************************************************)
(* Properties                                                              *)
(***************************************************************************)
(* The elements of a top-level item before flattening. *)
Forest(item, provider) ==
    IF IsBlockInstance(item)
    THEN IF item.block_id \in DOMAIN provider THEN provider[item.block_id].elements ELSE <<>>
    ELSE <<item>>

RECURSIVE PathsOf(_)
PathsOf(node) ==
    {<<>>} \cup UNION {{<<i>> \o p : p \in PathsOf(node.children[i])} :
                          i \in 1..Len(node.children)}

RECURSIVE NodeAt(_, _)
NodeAt(node, path) ==
    IF path = <<>> THEN node ELSE NodeAt(node.children[Head(path)], Tail(path))

(* A node's address: <<item index, index in the item's forest>> \o its path. *)
Addresses(tpl, provider) ==
    UNION {UNION {{<<i, r>> \o p : p \in PathsOf(Forest(tpl.items[i], provider)[r])} :
                     r \in 1..Len(Forest(tpl.items[i], provider))} :
              i \in 1..Len(tpl.items)}

NodeOf(tpl, provider, a) ==
    NodeAt(Forest(tpl.items[a[1]], provider)[a[2]], SubSeq(a, 3, Len(a)))

(* a comes before b: a is a proper prefix of b, or smaller at the first difference. *)
Before(a, b) ==
    \E k \in 1..(Len(b)) :
        /\ \A j \in 1..(k - 1) : j <= Len(a) /\ a[j] = b[j]
        /\ \/ k = Len(a) + 1
           \/ k <= Len(a) /\ a[k] < b[k]

Rank(A, a) == Cardinality({b \in A : Before(b, a)}) + 1

Resolved == pc = "compiled"

(* C1: an export leaves the caller's Template (items, their positions, sizes, props,
   bindings, children, instance data maps) and every Block definition of the block
   lookup equal to their values before the call. *)
C1_InputsNotMutated ==
    /\ template = snapshot.template
    /\ block_provider = snapshot.block_provider

C1_Witness ==
    /\ pc = "resized"
    /\ snapshot.entry = "generate"
    /\ working_template.obj # template
    /\ \E i \in 1..Len(template.items) : IsBlockInstance(template.items[i])
    /\ \E k \in 1..Len(elements) : elements[k].y # snapshot.elements[k].y

(* C2: compile emits exactly one flat element, with no children, per node, in
   pre-order: a node before its descendants, a child's whole subtree before the next
   sibling's, top-level items in template order. *)
C2_PreOrder ==
    Resolved =>
        LET A == Addresses(working_template.obj, block_provider)
        IN  /\ Len(elements) = Cardinality(A)
            /\ \A a \in A :
                  /\ elements[Rank(A, a)].id = NodeOf(working_template.obj, block_provider, a).id
                  /\ elements[Rank(A, a)].children = <<>>

C2_Witness ==
    /\ Resolved
    /\ Len(working_template.obj.items) >= 2
    /\ \E a \in Addresses(working_template.obj, block_provider) : Len(a) = 5
    /\ \E a \in Addresses(working_template.obj, block_provider) :
          Len(a) = 4 /\ a[3] = 2 /\ a[1] = 2
    /\ \E i \in 1..Len(template.items) :
          IsBlockInstance(template.items[i]) /\ template.items[i].block_id = "hdr"

RECURSIVE SumAlong(_, _, _)
SumAlong(root, path, k) ==
    IF k > Len(path) THEN [x |-> 0, y |-> 0]
    ELSE LET n == NodeAt(root, SubSeq(path, 1, k))
             rest == SumAlong(root, path, k + 1)
         IN  [x |-> n.x + rest.x, y |-> n.y + rest.y]

(* C3: a flattened element's absolute (x, y) is the sum of the local (x, y) of the
   element and all its ancestors, plus the instance's placement for block elements. *)
C3_OffsetComposition ==
    Resolved =>
        LET tpl == working_template.obj
            A == Addresses(tpl, block_provider)
        IN  \A a \in A :
               LET item == tpl.items[a[1]]
                   root == Forest(item, block_provider)[a[2]]
                   path == SubSeq(a, 3, Len(a))
                   sum == SumAlong(root, path, 1)
                   base == IF IsBlockInstance(item) THEN [x |-> item.x, y |-> item.y]
                           ELSE [x |-> 0, y |-> 0]
                   flat == elements[Rank(A, a)]
               IN  /\ flat.x = base.x + root.x + sum.x
                   /\ flat.y = base.y + root.y + sum.y

C3_Witness ==
    /\ Resolved
    /\ \E a \in Addresses(working_template.obj, block_provider) :
          /\ Len(a) = 5
          /\ \A k \in 2..5 : NodeAt(working_template.obj.items[a[1]], SubSeq(a, 3, k)).y > 0
    /\ \E a \in Addresses(working_template.obj, block_provider) :
          /\ Len(a) = 3
          /\ IsBlockInstance(working_template.obj.items[a[1]])
          /\ NodeOf(working_template.obj, block_provider, a).y > 0

(* The text with every placeholder whose key is in d replaced by its value and every
   other placeholder copied as it stands in s. *)
RECURSIVE KeepUnmatched(_, _, _)
KeepUnmatched(s, i, d) ==
    IF i > Len(s) THEN <<>>
    ELSE LET m == PatternMatchAt(s, i)
         IN  IF m.end > 0
             THEN (IF m.key \in DOMAIN d THEN d[m.key] ELSE SubSeq(s, i, m.end - 1))
                  \o KeepUnmatched(s, m.end, d)
             ELSE <<s[i]>> \o KeepUnmatched(s, i + 1, d)

(* C4: a {{identifier}} placeholder, with or without spaces inside the braces, whose
   identifier is not a key of the data map stays byte-for-byte as in the source text;
   with an empty data map the resolved text equals the source text. *)
C4_PlaceholderPreserved ==
    pc = "substituted" =>
        LET source == snapshot.elements[1].props["text"]
            resolved == elements[1].props["text"]
        IN  /\ resolved = KeepUnmatched(source, 1, data)
            /\ data = EmptyDict => resolved = source

DanglingRemoved(tpl, provider) ==
    LET keep == {i \in 1..Len(tpl.items) :
                    ~(IsBlockInstance(tpl.items[i]) /\ tpl.items[i].block_id \notin DOMAIN provider)}
        RECURSIVE Pick(_)
        Pick(i) == IF i > Len(tpl.items) THEN <<>>
                   ELSE (IF i \in keep THEN <<tpl.items[i]>> ELSE <<>>) \o Pick(i + 1)
    IN  [tpl EXCEPT !.items = Pick(1)]

(* C5: a BlockInstance whose block id is not in the block lookup raises nothing and
   contributes nothing: compile yields the elements, in number, order, coordinates and
   props, of the template without that instance. *)
C5_UnresolvableBlockSkipped ==
    /\ err # "KeyError"
    /\ Resolved =>
          elements = compile(DanglingRemoved(working_template.obj, block_provider),
                             block_provider).elements

C5_Witness ==
    /\ Resolved
    /\ Len(working_template.obj.items) = 2
    /\ \E i \in 1..2 : /\ IsBlockInstance(working_template.obj.items[i])
                       /\ working_template.obj.items[i].block_id \notin DOMAIN block_provider
    /\ Len(elements) >= 3

(* The global variable map of the export. *)
GlobalVariables ==
    IF snapshot.entry = "generate" THEN data
    ELSE DictGet(working_template.obj, "variables", EmptyDict)

(* Resolution of the caller's template without any global variable map. *)
ResolvedWithoutGlobals ==
    compile([page_size |-> snapshot.template.page_size, items |-> snapshot.template.items],
            snapshot.block_provider).elements

(* C6: after resolution, for every flattened element and each of its bindings (v, p):
   if v is a key of the global variable map, property p equals the map's value for v;
   otherwise property p is as resolution without the map leaves it. *)
C6_GlobalBindingPass ==
    Resolved =>
        \A k \in 1..Len(elements) : \A j \in 1..Len(elements[k].bindings) :
            LET v == elements[k].bindings[j].variable_name
                p == elements[k].bindings[j].target_property
                props == elements[k].props
                before == ResolvedWithoutGlobals[k].props
            IN  IF v \in DOMAIN GlobalVariables
                THEN p \in DOMAIN props /\ props[p] = GlobalVariables[v]
                ELSE /\ p \in DOMAIN props <=> p \in DOMAIN before
                     /\ p \in DOMAIN props => props[p] = before[p]

(***************************************************************************)
(* Properties of the dynamic sizing pass (element ids are unique)          *)
(***************************************************************************)
Resized == pc = "resized"

Ids == {snapshot.elements[k].id : k \in 1..Len(snapshot.elements)}

InputOf(id) == snapshot.elements[CHOOSE k \in 1..Len(snapshot.elements) :
                                    snapshot.elements[k].id = id]

OutputOf(id) == elements[CHOOSE k \in 1..Len(elements) : elements[k].id = id]

HasRows(e) == e.type = TABLE /\ DictGet(e.props, "data", <<>>) # <<>>

DesignRowCount(e) == DictGet(e.props, "num_rows_editor", DefaultRowsEditor)

Top(e) == e.y

Bottom(e) == e.y + e.height

HeightDelta(id) == OutputOf(id).height - InputOf(id).height

(* top of e is at or after the bottom of g, within 0.1 mm *)
AtOrAfter(e, g) == 10 * (Bottom(g) - Top(e)) <= Scale

RECURSIVE SumDeltas(_)
SumDeltas(S) ==
    IF S = {} THEN 0
    ELSE LET g == CHOOSE g \in S : TRUE IN HeightDelta(g) + SumDeltas(S \ {g})

(* C7 as stated: every Table with rows ends with height = (baseHeight /
   designRowCount) x actualRowCount, baseHeight being its height before the pass. *)
C7_TableScalingFromHeight ==
    Resized =>
        \A id \in Ids :
            HasRows(InputOf(id)) =>
                OutputOf(id).height * DesignRowCount(InputOf(id))
                    = InputOf(id).height * Len(InputOf(id).props["data"])

BaseHeightOf(e) ==
    IF "base_height" \in DOMAIN e.props THEN e.props["base_height"] ELSE e.height

(* C7 amended: every Table with rows ends with height = (baseHeight /
   designRowCount) x actualRowCount, baseHeight being props.base_height when the
   table carries one on entry and its height before the pass otherwise. *)
C7_TableScaling ==
    Resized =>
        \A id \in Ids :
            HasRows(InputOf(id)) =>
                /\ OutputOf(id).height * DesignRowCount(InputOf(id))
                       = BaseHeightOf(InputOf(id)) * Len(InputOf(id).props["data"])
                /\ OutputOf(id).props["base_height"] = BaseHeightOf(InputOf(id))

C7_Witness ==
    /\ Resized
    /\ \E id \in Ids :
          /\ HasRows(InputOf(id))
          /\ "base_height" \notin DOMAIN InputOf(id).props
          /\ "num_rows_editor" \notin DOMAIN InputOf(id).props
          /\ OutputOf(id).height # InputOf(id).height
    /\ \E id \in Ids :
          /\ HasRows(InputOf(id))
          /\ "base_height" \in DOMAIN InputOf(id).props
          /\ InputOf(id).props["base_height"] # InputOf(id).height
          /\ DesignRowCount(InputOf(id)) = 2

Growers == {g \in Ids : HasRows(InputOf(g)) /\ HeightDelta(g) > 0}

Shrinkers == {g \in Ids : HeightDelta(g) < 0}

(* C8: an element whose original top is at or after (0.1 mm) the original bottom of
   one or more growing tables moves down by exactly the sum of their height deltas,
   each counted once, whatever the order of the list. *)
C8_ReflowSingleApplication ==
    (Resized /\ Shrinkers = {}) =>
        \A id \in Ids :
            LET above == {g \in Growers \ {id} : AtOrAfter(InputOf(id), InputOf(g))}
            IN  above # {} => OutputOf(id).y = InputOf(id).y + SumDeltas(above)

(* C9: an element whose original top is before the original bottom of every
   growing table keeps its Y; no element's X or width changes. *)
C9_ReflowFrame ==
    (Resized /\ Shrinkers = {}) =>
        \A id \in Ids :
            /\ OutputOf(id).x = InputOf(id).x
            /\ OutputOf(id).width = InputOf(id).width
            /\ (\A g \in Growers \ {id} : Top(InputOf(id)) < Bottom(InputOf(g)))
                  => OutputOf(id).y = InputOf(id).y

(* C10: the list returned by the pass holds the same elements in the same sequence
   as its input, sorted by Y or not. *)
C10_OrderPreserved ==
    Resized =>
        /\ Len(elements) = Len(snapshot.elements)
        /\ \A k \in 1..Len(elements) : elements[k].id = snapshot.elements[k].id

(***************************************************************************)
(* Specification of _split_table and _split_textbox over short tables and  *)
(* texts: the element is split again and again against any available      *)
(* height; pages collects the first parts, snapshot.call the last call.    *)
(***************************************************************************)
SplitTables ==
    {Element(1, TABLE, 0, 0, mm(10), n * DictGet(p, "row_height", DefaultRowHeight),
             (IF n = 0 THEN EmptyDict ELSE Prop("data", Rows(n))) @@ p, <<>>, <<>>) :
        n \in 0..(MaxRows + 3), p \in {EmptyDict, Prop("row_height", mm(10)), Prop("row_height", mm(3))}}

SplitTextboxes ==
    {TextBox(1, 0, w, t) : w \in 1..2, t \in BoundedSeq({"a", " ", NL}, MaxTextLen)}

TableHeights == {mm(a) : a \in {0, 3, 5, 10, 25, 40, 100}}

TextboxHeights == {mm(a) : a \in 1..3}

InitSplit ==
    /\ pc = "split"
    /\ remaining_elem \in SplitTables \cup SplitTextboxes
    /\ pages = <<>>
    /\ snapshot = [elem |-> remaining_elem, call |-> None]
    /\ elements = <<>>
    /\ data = EmptyDict
    /\ template = NoValue
    /\ block_provider = NoValue
    /\ working_template = NoValue
    /\ err = "none"
    /\ current_page = 0
    /\ current_y = 0
    /\ next_index = 0
    /\ renderer = <<>>
    /\ position = [page |-> 0, elem |-> 0]
    /\ scene = NoValue

(* first_part, remaining_part = split(remaining_elem, available) *)
SplitCall(r, available) ==
    /\ snapshot' = [snapshot EXCEPT !.call = [elem |-> remaining_elem, available |-> available,
                                              first |-> r.first, remaining |-> r.remaining]]
    /\ pages' = IF IsNone(r.first) THEN pages ELSE Append(pages, <<r.first>>)
    /\ remaining_elem' = r.remaining
    /\ err' = r.raised
    /\ pc' = IF r.raised # "none" THEN "failed"
             ELSE IF IsNone(r.remaining) THEN "split_done" ELSE "split"
    /\ UNCHANGED <<template, block_provider, data, working_template, elements,
                   current_page, current_y, next_index, renderer, position>>
    /\ UNCHANGED scene

SplitTableCall ==
    /\ pc = "split"
    /\ remaining_elem.type = TABLE
    /\ \E a \in TableHeights : SplitCall(_split_table(remaining_elem, a), a)

SplitTextboxCall ==
    /\ pc = "split"
    /\ remaining_elem.type = TEXT_BOX
    /\ \E a \in TextboxHeights : SplitCall(_split_textbox(remaining_elem, a), a)

NextSplit == SplitTableCall \/ SplitTextboxCall

SpecSplit == InitSplit /\ [][NextSplit]_vars

(***************************************************************************)
(* Properties of export: mode selection, pagination, rendering             *)
(***************************************************************************)
Saved == pc = "saved"

CallsOf(op) == {k \in 1..Len(renderer) : renderer[k].op = op}

DrawCalls == {k \in 1..Len(renderer) : "id" \in DOMAIN renderer[k]}

MaxOf(S) == CHOOSE m \in S : \A v \in S : v <= m

RollWidth == page_w \in {58 * Scale, 80 * Scale}

(* The resolved elements, each drawn whole: its own rows or text, at its own place. *)
DrawnUnsplit ==
    /\ Cardinality(DrawCalls) = Len(elements)
    /\ \A k \in 1..Len(elements) :
          \E c \in DrawCalls :
             /\ renderer[c].id = elements[k].id
             /\ renderer[c].y = mm_to_pt(elements[k].y)
             /\ renderer[c].height = mm_to_pt(elements[k].height)
             /\ renderer[c].content = Call("draw", elements[k]).content

(* C11: for a page width of 58 or 80 mm export renders one page (one       *)
(* start_page / end_page pair) that holds every resolved element unsplit   *)
(* and whose height is the largest y + height plus 10 mm; for any other    *)
(* width the pages are those of the paginator and have the template's page *)
(* height.                                                                 *)
C11_ModeSelection ==
    Saved =>
       LET size == renderer[CHOOSE k \in CallsOf("set_page_size") : TRUE]
       IN  /\ Cardinality(CallsOf("set_page_size")) = 1
           /\ IF RollWidth
              THEN /\ Cardinality(CallsOf("start_page")) = 1
                   /\ Cardinality(CallsOf("end_page")) = 1
                   /\ DrawnUnsplit
                   /\ size.height = mm_to_pt(MaxOf({e.y + e.height : e \in Range(elements)})
                                             + 10 * Scale)
              ELSE /\ size.height = mm_to_pt(template.page_size.height)
                   /\ next_index = Len(elements) + 1
                   /\ Cardinality(CallsOf("start_page")) = Len(pages)
                   /\ Len(pages) = current_page + 1

(* A roll template whose content is higher than the template's page and holds a table with rows. *)
C11_Witness ==
    /\ Saved
    /\ RollWidth
    /\ \E e \in Range(elements) : e.y + e.height > template.page_size.height
    /\ \E e \in Range(elements) : e.type = TABLE /\ Len(DictGet(e.props, "data", <<>>)) > 1

Paginated == pc = "paginated"

(* The elements placed on page p (counted from 0) that come from the input element e. *)
PlacedOn(p, e) ==
    IF p + 1 \in DOMAIN pages
    THEN {pages[p + 1][j] : j \in {i \in 1..Len(pages[p + 1]) : pages[p + 1][i].id = e.id}}
    ELSE {}

(* C12: fixed-page placement keeps coordinates: an input element with      *)
(* (y mod pageHeight) + height <= pageHeight is on page floor(y /          *)
(* pageHeight) at page-local y = y mod pageHeight, with x, width and       *)
(* height unchanged (so elements side by side stay side by side).          *)
C12_CoordinatePreserving ==
    Paginated =>
       \A e \in Range(elements) :
          (e.y % page_h) + e.height <= page_h =>
             \E q \in PlacedOn(e.y \div page_h, e) :
                /\ q.y = e.y % page_h
                /\ q.x = e.x /\ q.width = e.width /\ q.height = e.height

(***************************************************************************)
(* Properties of the splits                                                *)
(***************************************************************************)
SplitMade(type) ==
    /\ pc \in {"split", "split_done"}
    /\ ~ IsNone(snapshot.call)
    /\ snapshot.call.elem.type = type

RowsOf(e) == DictGet(e.props, "data", <<>>)

(* C13: a table of n rows of one rowHeight split against available height *)
(* a, with k = floor(a / rowHeight): if 1 <= k < n the first part holds    *)
(* rows [0, k) and is k x rowHeight high, the remaining part holds rows    *)
(* [k, n) and is (n - k) x rowHeight high, and the two row lists make up   *)
(* the original rows; if k >= n the table comes back unsplit.              *)
C13_TableSplit ==
    SplitMade(TABLE) =>
       LET c == snapshot.call
           rowHeight == DictGet(c.elem.props, "row_height", 20 * Scale)
           n == Len(RowsOf(c.elem))
           k == c.available \div rowHeight
       IN  /\ (1 <= k /\ k < n) =>
                 /\ ~ IsNone(c.first) /\ ~ IsNone(c.remaining)
                 /\ RowsOf(c.first) = [j \in 1..k |-> RowsOf(c.elem)[j]]
                 /\ c.first.height = k * rowHeight
                 /\ RowsOf(c.remaining) = [j \in 1..(n - k) |-> RowsOf(c.elem)[k + j]]
                 /\ c.remaining.height = (n - k) * rowHeight
                 /\ RowsOf(c.first) \o RowsOf(c.remaining) = RowsOf(c.elem)
           /\ k >= n =>
                 /\ {c.first, c.remaining} = {c.elem, None}
                 /\ n >= 1 => c.first = c.elem

(* available = 25 mm, rowHeight = 10 mm, 5 rows: 2 rows / 20 mm and 3 rows / 30 mm *)
C13_Witness ==
    /\ SplitMade(TABLE)
    /\ snapshot.call.available = 25 * Scale
    /\ DictGet(snapshot.call.elem.props, "row_height", 0) = 10 * Scale
    /\ Len(RowsOf(snapshot.call.elem)) = 5
    /\ Len(RowsOf(snapshot.call.first)) = 2 /\ snapshot.call.first.height = 20 * Scale
    /\ Len(RowsOf(snapshot.call.remaining)) = 3 /\ snapshot.call.remaining.height = 30 * Scale

TextOf(e) == DictGet(e.props, "text", <<>>)

(* linesOf(part): the part's text split on line breaks and wrapped at the part's width *)
WrappedLinesOf(e) == LinesOf(e, TextOf(e))

(* The wrapped lines of the first parts made so far, in order. *)
PartLines == Concat([p \in 1..Len(pages) |-> WrappedLinesOf(pages[p][1])])

(* C14: when a text box is split, the wrapped lines of the first part      *)
(* followed by those of the remaining part are the wrapped lines of the    *)
(* text that was split, and over repeated splits the lines of all parts in *)
(* order are the wrapped lines of the original text: no line is dropped,   *)
(* duplicated or broken again, blank lines included.                       *)
C14_TextSplitPreservesLines ==
    SplitMade(TEXT_BOX) =>
       LET c == snapshot.call
       IN  /\ (~ IsNone(c.first) /\ ~ IsNone(c.remaining)) =>
                 WrappedLinesOf(c.first) \o WrappedLinesOf(c.remaining) = WrappedLinesOf(c.elem)
           /\ PartLines \o (IF IsNone(remaining_elem) THEN <<>> ELSE WrappedLinesOf(remaining_elem))
                 = WrappedLinesOf(snapshot.elem)

(* A text with a blank line and a wrapped paragraph, split twice: parts on three pages. *)
C14_Witness ==
    /\ SplitMade(TEXT_BOX)
    /\ Len(pages) >= 2
    /\ ~ IsNone(remaining_elem)
    /\ <<>> \in Range(WrappedLinesOf(snapshot.elem))
    /\ Len(WrappedLinesOf(snapshot.elem)) > Len(SplitOn(TextOf(snapshot.elem), NL, <<>>))

(***************************************************************************)
(* Properties of the paginator                                             *)
(***************************************************************************)
Splittable(e) == e.type \in {"table", "text_box"}

(* Where an element with the id of e is in the output: <<page, place>>, pages from 1. *)
PlacesOf(e) ==
    {pl \in UNION {{<<p, j>> : j \in 1..Len(pages[p])} : p \in 1..Len(pages)} :
        pages[pl[1]][pl[2]].id = e.id}

(* C15: an element of a kind other than Table and TextBox that does not   *)
(* fit in the space left on its page is in the output exactly once, whole, *)
(* on the next page at page-local y = topMargin.  (An element that opens a *)
(* page after the first and is not a split part is one that was moved.)    *)
C15_OverflowMovedToTopMargin ==
    Paginated =>
       /\ \A e \in Range(elements) :
             ~ Splittable(e) =>
                /\ Cardinality(PlacesOf(e)) = 1
                /\ \A pl \in PlacesOf(e) :
                      /\ pages[pl[1]][pl[2]].height = e.height
                      /\ pages[pl[1]][pl[2]].width = e.width
       /\ \A p \in 2..Len(pages) :
             (pages[p] # <<>> /\ ~ Splittable(pages[p][1])) =>
                pages[p][1].y = template.settings.page_top_margin_mm

FixedMode == pc \in {"paginate", "split_table", "split_textbox", "paginated"}

PartAt(pl) == pages[pl[1]][pl[2]]

RECURSIVE RowsFrom(_, _)
(* The rows of the parts of e on pages p, p + 1, ... in page order. *)
RowsFrom(e, p) ==
    IF p > Len(pages) THEN <<>>
    ELSE Concat([j \in 1..Len(pages[p]) |->
                    IF pages[p][j].id = e.id THEN RowsOf(pages[p][j]) ELSE <<>>])
         \o RowsFrom(e, p + 1)

(* C16: in fixed-page mode the parts of a Table or TextBox lie on          *)
(* consecutive pages, one part a page; every part after the first opens    *)
(* its page at page-local y = topMargin (so does a table moved intact      *)
(* because no row fitted); no part extends past the bottom of its page;    *)
(* and the parts of a table hold its rows in order.                        *)
C16_ContinuationPlacement ==
    FixedMode =>
       \A e \in Range(elements) :
          Splittable(e) =>
             /\ \A pl \in PlacesOf(e) :
                   /\ PartAt(pl).y + PartAt(pl).height <= template.page_size.height
                   /\ \A pm \in PlacesOf(e) : pm[1] = pl[1] => pm = pl
                   /\ (\E pm \in PlacesOf(e) : pm[1] < pl[1]) =>
                         /\ \E pm \in PlacesOf(e) : pm[1] = pl[1] - 1
                         /\ pl[2] = 1
                         /\ PartAt(pl).y = template.settings.page_top_margin_mm
                   /\ (pl[1] > 1 /\ pl[2] = 1) =>
                         PartAt(pl).y = template.settings.page_top_margin_mm
                   /\ (\E pm \in PlacesOf(e) : pm[1] > pl[1]) => pl[2] = Len(pages[pl[1]])
             /\ (Paginated /\ e.type = "table" /\ PlacesOf(e) # {}) => RowsFrom(e, 1) = RowsOf(e)

(* A table split over three pages with a top margin, and a table moved intact. *)
C16_Witness ==
    /\ Paginated
    /\ template.settings.page_top_margin_mm > 0
    /\ \E e \in Range(elements) :
          /\ e.type = "table"
          /\ Cardinality(PlacesOf(e)) >= 3
          /\ \A pl \in PlacesOf(e) : Len(RowsOf(PartAt(pl))) >= 1

(* A table of which no row fitted under the elements before it: whole on the next page. *)
C16_WitnessMoved ==
    /\ Paginated
    /\ \E e \in Range(elements) :
          /\ e.type = "table" /\ RowsOf(e) # <<>>
          /\ \E pl \in PlacesOf(e) : pl[1] > 1 /\ RowsOf(PartAt(pl)) = RowsOf(e)

(* C17: every element of every page returned by the paginator has a       *)
(* page-local y: 0 <= y < pageHeight.                                      *)
C17_PageLocalY ==
    Paginated =>
       \A p \in 1..Len(pages) : \A j \in 1..Len(pages[p]) :
          0 <= pages[p][j].y /\ pages[p][j].y < template.page_size.height

(* The states from the end of the sizing pass on. *)
ResolvedState == pc \in {"resized", "paginate", "split_table", "split_textbox", "paginated"}

TablesIn(elems) == {e \in Range(elems) : e.type = "table"}

(* C18: at every resolved state (after the sizing pass, and for every part *)
(* the paginator has placed or carries on) the height of a Table, split or *)
(* not, with rows or without, is its per-row height x its row count, the   *)
(* per-row height being the one the paginator reads.                       *)
C18_TableHeightInvariant ==
    ResolvedState =>
       \A t \in TablesIn(elements) \cup TablesIn(Concat(pages))
                \cup (IF IsNone(remaining_elem) THEN {} ELSE TablesIn(<<remaining_elem>>)) :
          t.height = DictGet(t.props, "row_height", 20 * Scale) * Len(RowsOf(t))

(***************************************************************************)
(* Properties of the renderer calls                                        *)
(***************************************************************************)
IsDraw(c) == c.op \in {"draw_rect", "draw_line", "draw_image", "draw_text", "draw_table"}

(* The protocol as an automaton over the calls: where it is after call c in state q. *)
ProtocolStep(q, c) ==
    IF q = "new" /\ c.op = "set_page_size" THEN "sized"
    ELSE IF q = "sized" /\ c.op = "initialize" THEN "between_pages"
    ELSE IF q = "between_pages" /\ c.op = "start_page" THEN "in_page"
    ELSE IF q = "in_page" /\ IsDraw(c) THEN "in_page"
    ELSE IF q = "in_page" /\ c.op = "end_page" THEN "between_pages"
    ELSE IF q = "between_pages" /\ c.op = "save" THEN "closed"
    ELSE "broken"

RECURSIVE ProtocolState(_)
ProtocolState(calls) ==
    IF calls = <<>> THEN "new"
    ELSE ProtocolStep(ProtocolState(SubSeq(calls, 1, Len(calls) - 1)), calls[Len(calls)])

(* The ids drawn between the n-th start_page and its end_page, in call order. *)
RECURSIVE DrawnOnPage(_, _, _)
DrawnOnPage(calls, n, seen) ==
    IF calls = <<>> THEN <<>>
    ELSE LET c == Head(calls)
         IN  IF c.op = "start_page" THEN DrawnOnPage(Tail(calls), n, seen + 1)
             ELSE IF IsDraw(c) /\ seen = n THEN <<c.id>> \o DrawnOnPage(Tail(calls), n, seen)
             ELSE DrawnOnPage(Tail(calls), n, seen)

(* C19: the renderer receives set_page_size, initialize, then for each     *)
(* page in order one start_page, that page's draw calls and one end_page,  *)
(* and at the end one save: no draw call outside a page, no page inside a  *)
(* page, as many start_page calls as the paginator returned pages (one on  *)
(* a continuous roll).                                                     *)
C19_RendererProtocol ==
    /\ ProtocolState(renderer) # "broken"
    /\ Saved =>
          /\ ProtocolState(renderer) = "closed"
          /\ Cardinality(CallsOf("save")) = 1
          /\ Cardinality(CallsOf("start_page")) = Len(pages)
          /\ RollWidth => Cardinality(CallsOf("start_page")) = 1
          /\ \A n \in 1..Len(pages) :
                DrawnOnPage(renderer, n, 0) = [j \in 1..Len(pages[n]) |-> pages[n][j].id]

(* An export of three pages or more with drawings on two of them, saved. *)
C19_Witness ==
    /\ Saved
    /\ Len(pages) >= 3
    /\ Cardinality({n \in 1..Len(pages) : pages[n] # <<>>}) >= 2

(* C20: pagination ends on degenerate input: a table without rows, a text *)
(* box without text or left with one blank line, a row or line higher than *)
(* pageHeight - topMargin.  A run that ends opens at most PageBound pages; *)
(* no state of the paginator has more.                                     *)
C20_PaginationTerminates ==
    FixedMode => Len(pages) <= PageBound(elements)

(***************************************************************************)
(* Degenerate elements                                                     *)
(***************************************************************************)
Degenerate(e) == HasRows(e) /\ DesignRowCount(e) = 0

(* C21: a table whose design row count is 0 causes no error outcome in the
   sizing pass; the pass returns and every other element is still sized. *)
C21_DegenerateSkipped ==
    (\E id \in Ids : Degenerate(InputOf(id))) => (pc # "failed" /\ err = "none")

(***************************************************************************)
(* Two exports, one after the other, on the same DocGenerator /            *)
(* TemplateExporter: the second call starts from the objects the first one *)
(* left behind.                                                            *)
(***************************************************************************)
InitTwice ==
    /\ pc = "idle"
    /\ \E cy \in [1..2 -> 0..1] :
         /\ block_provider = [b \in {"hdr"} |-> HeaderBlock(cy)]
         /\ \E m \in 1..2 : \E items \in [1..m -> ItemPool(cy)] :
              \E d \in GlobalMaps : \E has_variables \in BOOLEAN :
                 /\ data = d
                 /\ template = IF has_variables
                               THEN Template(items) @@ [variables |-> d]
                               ELSE Template(items)
    /\ working_template = NoValue
    /\ elements = <<>>
    /\ err = "none"
    /\ snapshot = [template |-> template, block_provider |-> block_provider,
                   entry |-> "none", elements |-> <<>>]
    /\ ExportIdle

FirstDone == pc \in {"resized", "failed"} /\ "first" \notin DOMAIN snapshot

FirstOutcome == [elements |-> elements, err |-> err, pc |-> pc]

(* gen.generate(data, output_path) a second time on the same DocGenerator *)
GenerateAgain ==
    /\ FirstDone
    /\ snapshot.entry = "generate"
    /\ LET g == generate(template, data)
       IN  /\ working_template' = g.working
           /\ template' = g.template
    /\ snapshot' = snapshot @@ [first |-> FirstOutcome]
    /\ pc' = "export"
    /\ elements' = <<>>
    /\ err' = "none"
    /\ UNCHANGED <<block_provider, data>>
    /\ UNCHANGED expvars

(* exporter.export(template, renderer, output_path) a second time on the same
   TemplateExporter with the same Template object *)
ExportAgain ==
    /\ FirstDone
    /\ snapshot.entry = "export"
    /\ working_template' = [obj |-> template, same |-> TRUE]
    /\ snapshot' = snapshot @@ [first |-> FirstOutcome]
    /\ pc' = "export"
    /\ elements' = <<>>
    /\ err' = "none"
    /\ UNCHANGED <<template, block_provider, data>>
    /\ UNCHANGED expvars

NextTwice ==
    \/ Generate
    \/ Export
    \/ Compile
    \/ AdjustDynamicHeights
    \/ GenerateAgain
    \/ ExportAgain

SpecTwice == InitTwice /\ [][NextTwice]_vars

SecondDone == pc \in {"resized", "failed"} /\ "first" \in DOMAIN snapshot

(* C22: the second of two exports of the same Template with the same global
   variable map and block lookup, on the same generator / exporter, ends with the
   same outcome and the same resolved and sized element list (ids, order, types,
   coordinates, sizes, props) as the first, hence the same renderer calls. *)
C22_SecondExportSame ==
    SecondDone => FirstOutcome = snapshot.first

C22_Witness ==
    /\ SecondDone
    /\ pc = "resized"
    /\ snapshot.entry = "generate"
    /\ data # EmptyDict
    /\ \E k \in 1..Len(elements) : HasRows(elements[k]) /\ elements[k].height # mm(3)
    /\ \E i \in 1..Len(template.items) : IsBlockInstance(template.items[i])

(***************************************************************************)
(* Resolution of templates that mix instances of one block, each with its  *)
(* own data map, with top-level texts that carry placeholders              *)
(***************************************************************************)
PlaceholderItem ==
    Element(12, TEXT, mm(12), mm(1), mm(40), mm(5),
            Prop("text", <<"{", "{", "n", "}", "}">>), <<>>,
            << Element(13, TEXT, mm(13), mm(2), mm(20), mm(5),
                       Prop("text", <<"{", "{", " ", "n", "}", "}", "!">>), <<>>, <<>>) >>)

ScopePool ==
    {PlaceholderItem,
     BlockInstance(21, "hdr", mm(10), mm(20), Prop(Name_n, <<"V">>)),
     BlockInstance(22, "hdr", mm(30), mm(5), EmptyDict),
     BlockInstance(24, "hdr", mm(50), mm(60), Prop(Name_n, <<"U">>))}

InitScope ==
    /\ pc = "idle"
    /\ block_provider = [b \in {"hdr"} |-> HeaderBlock(<<1, 2>>)]
    /\ \E m \in 1..3 : \E items \in [1..m -> ScopePool] :
          \E d \in GlobalMaps : \E has_variables \in BOOLEAN :
             /\ data = d
             /\ template = IF has_variables
                           THEN Template(items) @@ [variables |-> d]
                           ELSE Template(items)
    /\ working_template = NoValue
    /\ elements = <<>>
    /\ err = "none"
    /\ snapshot = [template |-> template, block_provider |-> block_provider,
                   entry |-> "none", elements |-> <<>>]
    /\ ExportIdle

NextScope == Generate \/ Export \/ Compile

SpecScope == InitScope /\ [][NextScope]_vars

(* The global binding pass has overwritten the text of flat element e. *)
TextOverwritten(tpl, e) ==
    /\ "variables" \in DOMAIN tpl
    /\ \E j \in 1..Len(e.bindings) :
          /\ e.bindings[j].target_property = "text"
          /\ e.bindings[j].variable_name \in DOMAIN tpl.variables

(* The text that the node at address a resolves to: the block's text with the
   placeholders replaced from the data map of the instance that produced it, and
   the node's own text for a node of a top-level element. *)
ScopedText(tpl, provider, a) ==
    LET item == tpl.items[a[1]]
        node == NodeOf(tpl, provider, a)
    IN  IF IsBlockInstance(item)
        THEN _substitute_text(node, item.data).props["text"]
        ELSE node.props["text"]

(* C23: every Text element produced by a block instance, at any depth, carries the
   block's text with the placeholders substituted from the data map of the instance
   resolve was given for it and from nothing else; the texts of top-level elements
   are as in the template; the block definition is as before. *)
C23_InstanceScope ==
    Resolved =>
        LET tpl == working_template.obj
            A == Addresses(tpl, block_provider)
        IN  /\ \A a \in A :
                  LET flat == elements[Rank(A, a)]
                  IN  (flat.type = TEXT /\ ~TextOverwritten(tpl, flat))
                          => flat.props["text"] = ScopedText(tpl, block_provider, a)
            /\ block_provider = snapshot.block_provider

C23_Witness ==
    /\ Resolved
    /\ snapshot.entry = "export"
    /\ "variables" \notin DOMAIN working_template.obj
    /\ Len(template.items) = 3
    /\ template.items[1] = PlaceholderItem
    /\ Len(elements) = 8
    /\ elements[1].props["text"] = <<"{", "{", "n", "}", "}">>
    /\ elements[4].props["text"] = <<"V">>
    /\ elements[5].props["text"] = <<"V", "!">>
    /\ elements[7].props["text"] = <<"U">>
    /\ elements[8].props["text"] = <<"U", "!">>

(***************************************************************************)
(* Text boxes in the dynamic sizing pass                                   *)
(***************************************************************************)
IsTextBox(e) == e.type = TEXT_BOX

WithoutTextBoxes(elems) == SelectSeq(elems, LAMBDA e : ~IsTextBox(e))

(* C24: the sizing pass leaves the height of every TextBox as it was, records
   props.base_height = that height when the TextBox carries none and leaves a
   carried base_height alone; every other element ends where the pass puts it when
   the text boxes are taken out of the list. *)
C24_DeferredTextBoxSizing ==
    Resized =>
        /\ \A id \in Ids :
              IsTextBox(InputOf(id)) =>
                  /\ OutputOf(id).height = InputOf(id).height
                  /\ OutputOf(id).props =
                         IF "base_height" \in DOMAIN InputOf(id).props
                         THEN InputOf(id).props
                         ELSE DictSet(InputOf(id).props, "base_height", InputOf(id).height)
        /\ WithoutTextBoxes(elements)
               = _adjust_dynamic_heights(WithoutTextBoxes(snapshot.elements)).elements

C24_Witness ==
    /\ Resized
    /\ \E id \in Ids :
          /\ IsTextBox(InputOf(id))
          /\ "base_height" \notin DOMAIN InputOf(id).props
          /\ OutputOf(id).props["base_height"] = OutputOf(id).height
          /\ OutputOf(id).y > InputOf(id).y
    /\ \E id \in Ids :
          /\ IsTextBox(InputOf(id))
          /\ "base_height" \in DOMAIN InputOf(id).props
          /\ OutputOf(id).props["base_height"] # OutputOf(id).height
    /\ \E id \in Ids : HasRows(InputOf(id)) /\ HeightDelta(id) > 0

(***************************************************************************)
(* The dynamic sizing pass applied to its own output                       *)
(***************************************************************************)
(* elements = self._adjust_dynamic_heights(elements), once more *)
AdjustAgain ==
    /\ pc = "resized"
    /\ LET r == _adjust_dynamic_heights(elements)
       IN  /\ elements' = r.elements
           /\ err' = r.raised
           /\ pc' = IF r.raised = "none" THEN "resized_twice" ELSE "failed"
    /\ snapshot' = snapshot @@ [once |-> elements]
    /\ UNCHANGED <<template, block_provider, data, working_template>>
    /\ UNCHANGED expvars

NextResizeTwice == AdjustDynamicHeights \/ AdjustAgain

SpecResizeTwice == InitResize /\ [][NextResizeTwice]_vars

OnceOf(id) == snapshot.once[CHOOSE k \in 1..Len(snapshot.once) : snapshot.once[k].id = id]

(* C27: the second application of the sizing pass raises nothing and leaves every
   element with the height, Y, base_height and row_height (all props) that the
   first application gave it. *)
C27_ResizeIdempotent ==
    /\ "once" \in DOMAIN snapshot => pc = "resized_twice"
    /\ pc = "resized_twice" => \A id \in Ids : OutputOf(id) = OnceOf(id)

C27_Witness ==
    /\ pc = "resized_twice"
    /\ \E id \in Ids :
          /\ HasRows(InputOf(id))
          /\ "base_height" \notin DOMAIN InputOf(id).props
          /\ OnceOf(id).height > InputOf(id).height
    /\ \E id \in Ids :
          /\ HasRows(InputOf(id))
          /\ OnceOf(id).height < InputOf(id).height
    /\ \E id \in Ids : OnceOf(id).y # InputOf(id).y
    /\ elements # snapshot.once

(***************************************************************************)
(* Font resolution: FontHelper.resolve and the paginator's measurement of  *)
(* a text box with the resolved font                                       *)
(***************************************************************************)
KnownFamilies == DOMAIN FONT_MAPPING

FontFamilies ==
    {PyStr(f) : f \in KnownFamilies \cup {"Verdana", "helvetica", ""}}
        \cup {PyList(<<"Arial">>)}

FontProps ==
    {EmptyDict} \cup
    {Prop("font_family", f) @@ Prop("font_bold", b) @@ Prop("font_italic", i) :
        f \in FontFamilies, b \in BOOLEAN, i \in BOOLEAN}

FontTexts == {<<"a">>, <<"a", " ", "a">>, <<"a", "a", " ", "a">>}

InitFont ==
    /\ pc = "font"
    /\ \E t \in FontTexts : \E fp \in FontProps :
          LET box == TextBox(1, 0, 2, t)
          IN  remaining_elem = [box EXCEPT !.props = @ @@ fp]
    /\ snapshot = [elem |-> remaining_elem, call |-> None]
    /\ data = EmptyDict
    /\ template = NoValue
    /\ block_provider = NoValue
    /\ working_template = NoValue
    /\ elements = <<>>
    /\ err = "none"
    /\ pages = <<>>
    /\ current_page = 0
    /\ current_y = 0
    /\ next_index = 0
    /\ renderer = <<>>
    /\ position = [page |-> 0, elem |-> 0]
    /\ scene = NoValue

(* FontHelper.resolve(font_family, bold, italic) *)
ResolveFont ==
    /\ pc = "font"
    /\ LET props == remaining_elem.props
       IN  snapshot' = [snapshot EXCEPT !.call =
                           FontHelper_resolve(DictGet(props, "font_family", PyStr("Helvetica")),
                                              DictGet(props, "font_bold", FALSE),
                                              DictGet(props, "font_italic", FALSE))]
    /\ pc' = "font_resolved"
    /\ UNCHANGED <<template, block_provider, data, working_template, elements, err>>
    /\ UNCHANGED expvars

(* _paginate_elements: the text box is measured with the font it resolved, or
   with Helvetica when resolve raised *)
MeasureTextBox ==
    /\ pc = "font_resolved"
    /\ snapshot' = snapshot @@ [font_name |-> FontNameOf(remaining_elem)]
    /\ remaining_elem' = [remaining_elem EXCEPT !.height = MeasuredHeight(remaining_elem)]
    /\ pc' = "measured"
    /\ UNCHANGED <<template, block_provider, data, working_template, elements, err>>
    /\ UNCHANGED <<pages, current_page, current_y, next_index, renderer, position>>
    /\ UNCHANGED scene

NextFont == ResolveFont \/ MeasureTextBox

SpecFont == InitFont /\ [][NextFont]_vars

(* The 4 style variants of a base face: regular, italic, bold, bold italic. *)
StyleVariants(base) ==
    CASE base = "Helvetica" ->
             <<"Helvetica", "Helvetica-Oblique", "Helvetica-Bold", "Helvetica-BoldOblique">>
      [] base = "Times-Roman" ->
             <<"Times-Roman", "Times-Italic", "Times-Bold", "Times-BoldItalic">>
      [] base = "Courier" ->
             <<"Courier", "Courier-Oblique", "Courier-Bold", "Courier-BoldOblique">>

StyleIndex(bold, italic) == 1 + (IF italic THEN 1 ELSE 0) + (IF bold THEN 2 ELSE 0)

RequestedFamily == DictGet(snapshot.elem.props, "font_family", PyStr("Helvetica"))

RequestedBold == DictGet(snapshot.elem.props, "font_bold", FALSE)

RequestedItalic == DictGet(snapshot.elem.props, "font_italic", FALSE)

(* C25: resolve returns for every family name (a string): the Helvetica variant of
   the bold and italic flags when the name is not in the family table, and the
   variant of the same flags of the family's base face when it is; when resolve
   raises, the paginator measures the text box with Helvetica. *)
C25_FontFallback ==
    /\ pc \in {"font_resolved", "measured"} =>
          (RequestedFamily.kind = "str" =>
              /\ snapshot.call.raised = "none"
              /\ snapshot.call.name =
                     StyleVariants(IF RequestedFamily.val \in KnownFamilies
                                   THEN FONT_MAPPING[RequestedFamily.val]
                                   ELSE "Helvetica")[StyleIndex(RequestedBold, RequestedItalic)])
    /\ pc = "measured" =>
          /\ snapshot.call.raised = "none" => snapshot.font_name = snapshot.call.name
          /\ snapshot.call.raised # "none" =>
                /\ snapshot.font_name = "Helvetica"
                /\ remaining_elem.height =
                       Len(WrapParagraphs(SplitOn(snapshot.elem.props["text"], NL, <<>>),
                                          "Helvetica", FontSizeOf(snapshot.elem),
                                          mm_to_pt(snapshot.elem.width)))
                           * line_height_mm(FontSizeOf(snapshot.elem))

C25_Witness ==
    /\ pc = "measured"
    /\ RequestedFamily = PyStr("Verdana")
    /\ RequestedBold
    /\ RequestedItalic
    /\ snapshot.font_name = "Helvetica-BoldOblique"
    /\ remaining_elem.height = 2 * line_height_mm(3)

(* A run in which resolve raised and the paginator went on with Helvetica. *)
C25_WitnessRaised ==
    /\ pc = "measured"
    /\ snapshot.call.raised = "TypeError"
    /\ snapshot.font_name = "Helvetica"
    /\ remaining_elem.height = line_height_mm(3)

(***************************************************************************)
(* Conservation of content by the paginator                                *)
(***************************************************************************)
(* The ids of the elements and parts of the pages, read in page order. *)
PageIds == Concat([p \in 1..Len(pages) |-> [j \in 1..Len(pages[p]) |-> pages[p][j].id]])

(* s without the repetitions of an entry that directly follow it. *)
RECURSIVE Collapse(_)
Collapse(s) ==
    IF Len(s) <= 1 THEN s
    ELSE IF s[1] = s[2] THEN Collapse(Tail(s))
    ELSE <<s[1]>> \o Collapse(Tail(s))

(* C28: of the list the paginator returns pages for, every element that is not a
   Table or TextBox is on exactly one page exactly once, every Table and TextBox is
   there with its parts, the rows of a Table's parts in page order are its rows, and
   the pages read in order give the elements (the parts of one element together) in
   the order of the input list. *)
C28_ContentConserved ==
    Paginated =>
       /\ \A e \in Range(elements) :
             /\ ~ Splittable(e) => Cardinality(PlacesOf(e)) = 1
             /\ Splittable(e) => PlacesOf(e) # {}
             /\ e.type = TABLE => RowsFrom(e, 1) = RowsOf(e)
       /\ Collapse(PageIds) = [k \in 1..Len(elements) |-> elements[k].id]

C28_Witness ==
    /\ Paginated
    /\ Len(elements) >= 3
    /\ Len(pages) >= 3
    /\ \E e \in Range(elements) : e.type = TABLE /\ Cardinality(PlacesOf(e)) >= 2
    /\ \E e \in Range(elements) :
          ~ Splittable(e) /\ \E pl \in PlacesOf(e) : pl[1] >= 2 /\ pl[2] >= 2

(***************************************************************************)
(* Legacy migration (core/io.py)                                           *)
(*                                                                         *)
(* An item of a flat file is a dict; "id" may be missing, and item.get(    *)
(* "id") is then None, which the model writes 0.  The dicts are objects:   *)
(* the links made by children.append are kept as index arrays and the      *)
(* hierarchy is read off them at the end.                                  *)
(***************************************************************************)
get_id(item) == IF "id" \in DOMAIN item THEN item.id ELSE 0

(* key=lambda c: c.get("width", 0) * c.get("height", 0) *)
area(c) == c.width * c.height

(* ix >= cx and iy >= cy and (ix + iw) <= (cx + cw) and (iy + ih) <= (cy + ch) *)
inside(i, c) ==
    /\ i.x >= c.x
    /\ i.y >= c.y
    /\ (i.x + i.width) <= (c.x + c.width)
    /\ (i.y + i.height) <= (c.y + c.height)

(* containers.sort(key=area): stable *)
RECURSIVE InsertByArea(_, _)
InsertByArea(s, c) ==
    IF s = <<>> THEN <<c>>
    ELSE IF area(s[Len(s)]) <= area(c) THEN Append(s, c)
    ELSE Append(InsertByArea(SubSeq(s, 1, Len(s) - 1), c), s[Len(s)])

RECURSIVE SortByArea(_)
SortByArea(cs) ==
    IF cs = <<>> THEN <<>>
    ELSE InsertByArea(SortByArea(SubSeq(cs, 1, Len(cs) - 1)), cs[Len(cs)])

(* for container in containers: ... break  -- the index of the container the item
   is appended to, 0 when the loop ends without a break *)
RECURSIVE FirstContainer(_, _, _)
FirstContainer(item, containers, k) ==
    IF k > Len(containers) THEN 0
    ELSE IF inside(item, containers[k]) THEN k
    ELSE FirstContainer(item, containers, k + 1)

(* for j, other_c in enumerate(containers): ... break  -- the index of the parent
   found for containers[i], 0 when parent_found stays False *)
RECURSIVE FirstParent(_, _, _)
FirstParent(containers, i, j) ==
    IF j > Len(containers) THEN 0
    ELSE LET c == containers[i]
             other_c == containers[j]
         IN  IF i = j \/ get_id(other_c) = get_id(c)
             THEN FirstParent(containers, i, j + 1)
             ELSE IF /\ inside(c, other_c)
                     /\ \/ area(other_c) > area(c)
                        \/ (area(other_c) = area(c) /\ j > i)
             THEN j
             ELSE FirstParent(containers, i, j + 1)

(* for i, c in enumerate(containers): the containers with x, y made relative to the
   parent found, and the parent's index for each *)
RECURSIVE NestLoop(_, _, _)
NestLoop(containers, parent, i) ==
    IF i > Len(containers) THEN [containers |-> containers, parent |-> parent]
    ELSE LET j == FirstParent(containers, i, 1)
         IN  IF j = 0 THEN NestLoop(containers, parent, i + 1)
             ELSE NestLoop([containers EXCEPT ![i].x = @ - containers[j].x,
                                              ![i].y = @ - containers[j].y],
                           [parent EXCEPT ![i] = j], i + 1)

(* The container dict at index j as it is reachable from the returned data: its
   children are the items appended in the first loop, then the containers appended
   in the second. *)
RECURSIVE Hierarchy(_, _, _, _)
Hierarchy(j, containers, parent, appended) ==
    [containers[j] EXCEPT !.children =
        appended[j] \o
        Concat([i \in 1..Len(containers) |->
                   IF parent[i] = j THEN <<Hierarchy(i, containers, parent, appended)>>
                   ELSE <<>>])]

(* _migrate_v001_to_v002(data): data = the returned dict; others / parent_of_other
   and containers / parent = the two lists and, per entry, the index of the
   container the entry was appended to (0: none). *)
_migrate_v001_to_v002(d) ==
    LET items == d.items
        containers0 == SelectSeq(items, LAMBDA i : i.type = CONTAINER)
        others == SelectSeq(items, LAMBDA i : i.type # CONTAINER)
    IN  IF items = <<>> \/ containers0 = <<>>
        THEN [data |-> d, others |-> others, parent_of_other |-> [o \in 1..Len(others) |-> 0],
              containers |-> containers0, parent |-> [i \in 1..Len(containers0) |-> 0]]
        ELSE LET containers == SortByArea(containers0)
                 parent_of_other == [o \in 1..Len(others) |->
                                        FirstContainer(others[o], containers, 1)]
                 moved == [o \in 1..Len(others) |->
                              IF parent_of_other[o] = 0 THEN others[o]
                              ELSE [others[o] EXCEPT
                                       !.x = @ - containers[parent_of_other[o]].x,
                                       !.y = @ - containers[parent_of_other[o]].y]]
                 assigned_ids == {get_id(others[o]) :
                                     o \in {q \in 1..Len(others) : parent_of_other[q] # 0}}
                 appended == [k \in 1..Len(containers) |->
                                 Concat([o \in 1..Len(others) |->
                                            IF parent_of_other[o] = k THEN <<moved[o]>>
                                            ELSE <<>>])]
                 new_top_level == SelectSeq(moved, LAMBDA i : get_id(i) \notin assigned_ids)
                 nested == NestLoop(containers, [i \in 1..Len(containers) |-> 0], 1)
                 final_top_level ==
                     Concat([i \in 1..Len(containers) |->
                                IF nested.parent[i] = 0
                                THEN <<Hierarchy(i, nested.containers, nested.parent, appended)>>
                                ELSE <<>>])
             IN  [data |-> [d EXCEPT !.items = final_top_level \o new_top_level,
                                     !.version = "0.0.2"],
                  others |-> others, parent_of_other |-> parent_of_other,
                  containers |-> containers, parent |-> nested.parent]

(***************************************************************************)
(* Specification of the migration over short flat item lists               *)
(***************************************************************************)
MaxLegacy == 3

(* Rectangles <<x, y, width, height>>: a large one, one in its corner, one inside
   both, one inside the large one that overlaps the corner one, one apart. *)
LegacyRects == {<<0, 0, 4, 4>>, <<0, 0, 2, 2>>, <<1, 1, 1, 1>>, <<1, 1, 2, 2>>, <<5, 0, 1, 1>>}

FlatItem(type, r) ==
    [type |-> type, x |-> mm(r[1]), y |-> mm(r[2]), width |-> mm(r[3]), height |-> mm(r[4]),
     children |-> <<>>]

(* How a file gives ids to its m items. *)
IdSchemes(m) ==
    {[k \in 1..m |-> k], [k \in 1..m |-> 0], [k \in 1..m |-> (k + 1) \div 2]}

WithId(item, id) == IF id = 0 THEN item ELSE item @@ [id |-> id]

LegacyVersions == {"0.0.0", "0.0.1"}

InitMigrate ==
    /\ pc = "legacy"
    /\ \E m \in 1..MaxLegacy :
          \E ids \in IdSchemes(m) :
             \E its \in [1..m -> {FlatItem(t, r) : t \in {CONTAINER, TEXT}, r \in LegacyRects}] :
                \E v \in LegacyVersions :
                   template = [version |-> v,
                               items |-> [k \in 1..m |-> WithId(its[k], ids[k])]]
    /\ snapshot = [template |-> template]
    /\ data = EmptyDict
    /\ block_provider = NoValue
    /\ working_template = NoValue
    /\ elements = <<>>
    /\ err = "none"
    /\ ExportIdle

(* _migrate_template_data(data) for a file of version 0.0.0 or 0.0.1 *)
MigrateTemplateData ==
    /\ pc = "legacy"
    /\ template.version \in LegacyVersions
    /\ LET r == _migrate_v001_to_v002(template)
       IN  /\ template' = r.data
           /\ snapshot' = snapshot @@ [others |-> r.others,
                                       parent_of_other |-> r.parent_of_other,
                                       containers |-> r.containers,
                                       parent |-> r.parent]
    /\ pc' = "migrated"
    /\ UNCHANGED <<block_provider, data, working_template, elements, err>>
    /\ UNCHANGED expvars

NextMigrate == MigrateTemplateData

SpecMigrate == InitMigrate /\ [][NextMigrate]_vars

(***************************************************************************)
(* Properties of the legacy migration                                      *)
(***************************************************************************)
Migrated == pc = "migrated"

FlatInput == snapshot.template.items

(* The migrated hierarchy flattened again: absolute coordinates, no children. *)
Flattened ==
    Concat([i \in 1..Len(template.items) |-> _flatten_tree(template.items[i], 0, 0).flat])

Count(s, v) == Cardinality({k \in 1..Len(s) : s[k] = v})

(* C29: flattening the migrated hierarchy gives the items of the flat file, each as
   often as the file has it, with the absolute x, y, width and height (and type and
   id) of the file: nothing is dropped, nothing is duplicated. *)
C29_MigrationPreservesItems ==
    Migrated =>
        \A v \in Range(FlatInput) \cup Range(Flattened) :
            Count(Flattened, v) = Count(FlatInput, v)

(* The containers that completely contain item i / strictly enclose container i:
   indices into the area-sorted container list, rectangles as in the flat file. *)
Containing(o) ==
    {k \in 1..Len(snapshot.containers) : inside(snapshot.others[o], snapshot.containers[k])}

Enclosing(i) ==
    {j \in 1..Len(snapshot.containers) \ {i} :
        /\ inside(snapshot.containers[i], snapshot.containers[j])
        /\ area(snapshot.containers[j]) > area(snapshot.containers[i])}

Smallest(S, k) == k \in S /\ \A q \in S : area(snapshot.containers[k]) <= area(snapshot.containers[q])

(* The container reached from container i in n steps of the parent relation. *)
RECURSIVE Ancestor(_, _)
Ancestor(i, n) == IF n = 0 \/ i = 0 THEN i ELSE Ancestor(snapshot.parent[i], n - 1)

(* The items left at top level that were appended to no container. *)
Unassigned(v) ==
    Cardinality({o \in 1..Len(snapshot.others) :
                    snapshot.parent_of_other[o] = 0 /\ snapshot.others[o] = v})

(* C26: a non-container item contained in some container is a child of a
   smallest-area container that contains it, and an item contained in none is at top
   level; a container that some container strictly encloses is a child, and its
   parent is no larger than the smallest container that strictly encloses it; a
   child is always completely inside its parent; the parent relation has no cycle. *)
C26_MigrationNesting ==
    Migrated =>
        /\ \A o \in 1..Len(snapshot.others) :
              IF Containing(o) # {}
              THEN Smallest(Containing(o), snapshot.parent_of_other[o])
              ELSE /\ snapshot.parent_of_other[o] = 0
                   /\ Count(template.items, snapshot.others[o]) = Unassigned(snapshot.others[o])
        /\ \A i \in 1..Len(snapshot.containers) :
              /\ Enclosing(i) # {} =>
                    /\ snapshot.parent[i] # 0
                    /\ \A j \in Enclosing(i) :
                          area(snapshot.containers[snapshot.parent[i]])
                              <= area(snapshot.containers[j])
              /\ snapshot.parent[i] # 0 =>
                    inside(snapshot.containers[i], snapshot.containers[snapshot.parent[i]])
              /\ Ancestor(i, Len(snapshot.containers)) = 0

(***************************************************************************)
(* Editor scene: undo / redo stacks (gui/scene/scene.py)                   *)
(*                                                                         *)
(* scene.items is what the scene shows; a snapshot is the JSON text of     *)
(* to_template(), written [json |-> items]; scene.restored is the snapshot *)
(* last handed to _restore_from_snapshot (None: none yet).                 *)
(***************************************************************************)
_max_undo == 50

(* What the scene can show: nothing, or the one item the user has put there. *)
SceneItems == {<<>>, <<"rect">>}

model_dump_json(items) == [json |-> items]

model_validate(json_data) == json_data.json

(* save_snapshot: the scene afterwards *)
save_snapshot(self) ==
    LET s == model_dump_json(self.items)
    IN  IF self._undo_stack # <<>> /\ self._undo_stack[Len(self._undo_stack)] = s
        THEN self
        ELSE LET pushed == Append(self._undo_stack, s)
             IN  [self EXCEPT !._undo_stack = IF Len(pushed) > _max_undo THEN Tail(pushed)
                                              ELSE pushed,
                              !._redo_stack = <<>>]

(* _restore_from_snapshot(json_data) *)
_restore_from_snapshot(self, json_data) ==
    [self EXCEPT !.items = model_validate(json_data), !.restored = json_data]

(* undo *)
undo(self) ==
    IF Len(self._undo_stack) <= 1 THEN self
    ELSE LET current == self._undo_stack[Len(self._undo_stack)]
             popped == SubSeq(self._undo_stack, 1, Len(self._undo_stack) - 1)
             last == popped[Len(popped)]
         IN  _restore_from_snapshot([self EXCEPT !._undo_stack = popped,
                                                 !._redo_stack = Append(@, current)],
                                    last)

(* redo that forgets to push the snapshot back *)
redo_without_push(self) ==
    IF self._redo_stack = <<>> THEN self
    ELSE LET s == self._redo_stack[Len(self._redo_stack)]
         IN  _restore_from_snapshot(
                 [self EXCEPT !._redo_stack = SubSeq(@, 1, Len(@) - 1)], s)

(* redo *)
redo(self) ==
    IF self._redo_stack = <<>> THEN self
    ELSE LET s == self._redo_stack[Len(self._redo_stack)]
         IN  _restore_from_snapshot(
                 [self EXCEPT !._redo_stack = SubSeq(@, 1, Len(@) - 1),
                              !._undo_stack = Append(@, s)], s)

(* EditorScene.__init__: empty stacks, an empty template, the initial snapshot *)
InitScene ==
    /\ pc = "scene"
    /\ scene = save_snapshot([_undo_stack |-> <<>>, _redo_stack |-> <<>>,
                              items |-> <<>>, restored |-> None])
    /\ snapshot = [last |-> "init", before |-> scene]
    /\ template = NoValue
    /\ data = EmptyDict
    /\ block_provider = NoValue
    /\ working_template = NoValue
    /\ elements = <<>>
    /\ err = "none"
    /\ pages = <<>>
    /\ current_page = 0
    /\ current_y = 0
    /\ remaining_elem = None
    /\ next_index = 0
    /\ renderer = <<>>
    /\ position = [page |-> 0, elem |-> 0]

SceneFrame ==
    UNCHANGED <<pc, template, block_provider, data, working_template, elements, err,
                pages, current_page, current_y, remaining_elem, next_index, renderer, position>>

(* The user adds or removes an item: the scene shows something else. *)
EditScene ==
    /\ pc = "scene"
    /\ \E items \in SceneItems \ {scene.items} : scene' = [scene EXCEPT !.items = items]
    /\ snapshot' = [last |-> "edit", before |-> scene]
    /\ SceneFrame

SaveSnapshot ==
    /\ pc = "scene"
    /\ scene' = save_snapshot(scene)
    /\ snapshot' = [last |-> "save_snapshot", before |-> scene]
    /\ SceneFrame

Undo ==
    /\ pc = "scene"
    /\ scene' = undo(scene)
    /\ snapshot' = [last |-> "undo", before |-> scene]
    /\ SceneFrame

(* redo; snapshot.before stays the scene before the undo when redo directly
   follows an undo *)
Redo ==
    /\ pc = "scene"
    /\ scene' = redo(scene)
    /\ snapshot' = IF snapshot.last = "undo"
                   THEN [last |-> "undo_redo", before |-> snapshot.before]
                   ELSE [last |-> "redo", before |-> scene]
    /\ SceneFrame

NextScene == EditScene \/ SaveSnapshot \/ Undo \/ Redo

SpecScene == InitScene /\ [][NextScene]_vars

(***************************************************************************)
(* Properties of the undo / redo stacks                                    *)
(***************************************************************************)
TopOf(stack) == stack[Len(stack)]

StacksBounded ==
    /\ Len(scene._undo_stack) >= 1
    /\ Len(scene._undo_stack) <= _max_undo
    /\ \A k \in 1..(Len(scene._undo_stack) - 1) : scene._undo_stack[k] # scene._undo_stack[k + 1]

SaveClearsRedo ==
    (snapshot.last = "save_snapshot"
        /\ model_dump_json(snapshot.before.items) # TopOf(snapshot.before._undo_stack))
      => (scene._redo_stack = <<>> /\ TopOf(scene._undo_stack) = model_dump_json(scene.items))

NothingToUndoOrRedo ==
    /\ (snapshot.last = "undo" /\ Len(snapshot.before._undo_stack) = 1) => scene = snapshot.before
    /\ (snapshot.last = "redo" /\ snapshot.before._redo_stack = <<>>) => scene = snapshot.before
    /\ (snapshot.last = "undo_redo" /\ Len(snapshot.before._undo_stack) = 1
            /\ snapshot.before._redo_stack = <<>>) => scene = snapshot.before

StacksRestored ==
    /\ scene._undo_stack = snapshot.before._undo_stack
    /\ scene._redo_stack = snapshot.before._redo_stack
    /\ scene.restored = TopOf(snapshot.before._undo_stack)
    /\ scene.items = model_validate(TopOf(snapshot.before._undo_stack))

(* C30 as stated: the undo stack holds 1 to 50 snapshots, no two adjacent ones
   equal; saving a different snapshot empties the redo stack; undo with a single
   snapshot and redo with an empty redo stack change nothing; after any undo
   directly followed by a redo both stacks are as before the undo and the scene is
   restored, if at all, from the snapshot that was on top of the undo stack. *)
C30_UndoRedoAnyUndo ==
    /\ StacksBounded
    /\ SaveClearsRedo
    /\ NothingToUndoOrRedo
    /\ snapshot.last = "undo_redo" =>
          /\ scene._undo_stack = snapshot.before._undo_stack
          /\ scene._redo_stack = snapshot.before._redo_stack
          /\ scene.restored \in {snapshot.before.restored, TopOf(snapshot.before._undo_stack)}

(* C30 amended: as above, the last part for an undo that finds more than one
   snapshot on the undo stack: after it and the redo that directly follows, both
   stacks are as before the undo and the scene shows the snapshot that was on top
   of the undo stack. *)
C30_UndoRedo ==
    /\ StacksBounded
    /\ SaveClearsRedo
    /\ NothingToUndoOrRedo
    /\ (snapshot.last = "undo_redo" /\ Len(snapshot.before._undo_stack) > 1) => StacksRestored

(* An undo and a redo on a full undo stack whose oldest snapshot has been
   discarded, with an edit not yet saved before the undo. *)
C30_Witness ==
    /\ snapshot.last = "undo_redo"
    /\ Len(snapshot.before._undo_stack) = _max_undo
    /\ snapshot.before._undo_stack[1] = model_dump_json(<<"rect">>)
    /\ snapshot.before.items # scene.items
    /\ scene._undo_stack = snapshot.before._undo_stack

====
